---- MODULE Spec2Model ----
(***************************************************************************)
(* Verification model of the cognitive reasoning and orchestration engine  *)
(* of civicxai_backend/cognitive: the PLN truth-value calculus and rule    *)
(* table (pln/pln_rules.py), forward and backward chaining                 *)
(* (pln/advanced_pln.py), the causal inference engine                      *)
(* (causal_inference.py) and the query orchestrator                        *)
(* (orchestrator/orchestrator.py).                                         *)
(*                                                                         *)
(* Python floats are modelled as exact rationals [n, d] in lowest terms.   *)
(***************************************************************************)
EXTENDS Integers, Sequences, FiniteSets, Bags, TLC

VARIABLES
    tv_call,        \* the last truth-value operator call: operator, arguments, result
    rules,          \* PLNRulesEngine.rules, a dict kept in insertion order
    fc,             \* the frame of the forward_chaining call in progress
    bc,             \* the call stack of the backward_chaining call in progress
    causal_graph,   \* CausalInferenceEngine.causal_graph: cause -> list of edges
    atomspace,      \* the atoms held by the AtomSpace, a bag of expressions
    dfs,            \* the infer_causal_chain call in progress
    ci_call,        \* the last estimate_causal_effect call and its result
    routing_stats,  \* CognitiveOrchestrator.routing_stats
    orch_call,      \* the last orchestrator call: method, argument, result
    rule_call,      \* the last apply_rule call and its result
    kb_file,        \* the file export_knowledge wrote, a bag of lines
    store_call,     \* the last AtomSpace or KnowledgeStore call and its result
    score_call,     \* the last ConfidenceScorer call: its argument and result
    reasoning_chains, \* the ReasoningChain objects made so far, by identity
    current_chain,  \* ReasoningChainBuilder.current_chain: None or the identity of a chain
    summaries,      \* the last summary each chain returned to its caller
    chain_call,     \* the last ReasoningChain, builder or reason_with_pln call and its result
    add_call,       \* the add_rule call another request handler made during a chaining call
    discover_call,  \* the last discover_causal_relations call and its result
    abd_call        \* the last abductive_reasoning call and its result

vars == <<tv_call, rules, fc, bc, causal_graph, atomspace, dfs, ci_call,
          routing_stats, orch_call, rule_call, kb_file, store_call,
          score_call, reasoning_chains, current_chain, summaries,
          chain_call, add_call,
                 discover_call,
                 abd_call>>

\* What an action on one part of the engine leaves alone.
ExceptTVCall == <<rules, fc, bc, causal_graph, atomspace, dfs, ci_call,
                  routing_stats, orch_call, rule_call, kb_file, store_call,
                  score_call, reasoning_chains, current_chain, summaries,
                  chain_call, add_call,
                 discover_call,
                 abd_call>>
ExceptRules == <<tv_call, fc, bc, causal_graph, atomspace, dfs, ci_call,
                 routing_stats, orch_call, rule_call, kb_file, store_call,
                 score_call, reasoning_chains, current_chain, summaries,
                 chain_call, add_call,
                 discover_call,
                 abd_call>>
ExceptFC == <<tv_call, rules, bc, causal_graph, atomspace, dfs, ci_call,
              routing_stats, orch_call, rule_call, kb_file, store_call,
              score_call, reasoning_chains, current_chain, summaries,
              chain_call, add_call,
                 discover_call,
                 abd_call>>
ExceptBC == <<tv_call, rules, fc, causal_graph, atomspace, dfs, ci_call,
              routing_stats, orch_call, rule_call, kb_file, store_call,
              score_call, reasoning_chains, current_chain, summaries,
              chain_call, add_call,
                 discover_call,
                 abd_call>>
ExceptGraph == <<tv_call, rules, fc, bc, dfs, ci_call, routing_stats,
                 orch_call, rule_call, kb_file, store_call, score_call,
                 reasoning_chains, current_chain, summaries, chain_call,
                 add_call,
                 discover_call,
                 abd_call>>
ExceptDFS == <<tv_call, rules, fc, bc, causal_graph, atomspace, ci_call,
               routing_stats, orch_call, rule_call, kb_file, store_call,
               score_call, reasoning_chains, current_chain, summaries,
               chain_call, add_call,
                 discover_call,
                 abd_call>>
ExceptCICall == <<tv_call, rules, fc, bc, causal_graph, atomspace, dfs,
                  routing_stats, orch_call, rule_call, kb_file, store_call,
                  score_call, reasoning_chains, current_chain, summaries,
                  chain_call, add_call,
                 discover_call,
                 abd_call>>
ExceptOrch == <<tv_call, rules, fc, bc, causal_graph, atomspace, dfs,
                ci_call, rule_call, kb_file, store_call, score_call,
                reasoning_chains, current_chain, summaries, chain_call,
                add_call,
                 discover_call,
                 abd_call>>
ExceptRuleCall == <<tv_call, rules, fc, bc, causal_graph, atomspace, dfs,
                    ci_call, routing_stats, orch_call, kb_file, store_call,
                    score_call, reasoning_chains, current_chain, summaries,
                    chain_call, add_call,
                 discover_call,
                 abd_call>>
ExceptFile == <<tv_call, rules, fc, bc, causal_graph, atomspace, dfs,
                ci_call, routing_stats, orch_call, rule_call, store_call,
                score_call, reasoning_chains, current_chain, summaries,
                chain_call, add_call,
                 discover_call,
                 abd_call>>
ExceptStoreCall == <<tv_call, rules, fc, bc, causal_graph, atomspace, dfs,
                     ci_call, routing_stats, orch_call, rule_call, kb_file,
                     score_call, reasoning_chains, current_chain, summaries,
                     chain_call, add_call,
                 discover_call,
                 abd_call>>
ExceptScoreCall == <<tv_call, rules, fc, bc, causal_graph, atomspace, dfs,
                     ci_call, routing_stats, orch_call, rule_call, kb_file,
                     store_call, reasoning_chains, current_chain, summaries,
                     chain_call, add_call,
                 discover_call,
                 abd_call>>
ExceptReasoning == <<tv_call, rules, fc, bc, causal_graph, atomspace, dfs,
                     ci_call, routing_stats, orch_call, rule_call, kb_file,
                     store_call, score_call, add_call,
                 discover_call,
                 abd_call>>
ExceptAddCall == <<tv_call, rules, fc, bc, causal_graph, atomspace, dfs,
                   ci_call, routing_stats, orch_call, rule_call, kb_file,
                   store_call, score_call, reasoning_chains, current_chain,
                   summaries, chain_call,
                 discover_call,
                 abd_call>>
ExceptStore == <<tv_call, rules, fc, bc, causal_graph, dfs, ci_call,
                 routing_stats, orch_call, rule_call, kb_file, score_call,
                 reasoning_chains, current_chain, summaries, chain_call,
                 add_call,
                 discover_call,
                 abd_call>>
ExceptExport == <<tv_call, rules, fc, bc, causal_graph, atomspace, dfs,
                  ci_call, routing_stats, orch_call, rule_call, score_call,
                  reasoning_chains, current_chain, summaries, chain_call,
                  add_call,
                 discover_call,
                 abd_call>>
ExceptConcurrent == <<tv_call, bc, causal_graph, atomspace, dfs, ci_call,
                      routing_stats, orch_call, rule_call, kb_file,
                      store_call, score_call, reasoning_chains,
                      current_chain, summaries, chain_call,
                 discover_call,
                 abd_call>>
ExceptDiscoverCall == <<tv_call, rules, fc, bc, causal_graph, atomspace, dfs,
                 ci_call, routing_stats, orch_call,
                 rule_call, kb_file, store_call, score_call,
                 reasoning_chains, current_chain, summaries,
                 chain_call, add_call,
                 abd_call>>
ExceptAbdCall == <<tv_call, rules, fc, bc, causal_graph, atomspace, dfs,
                 ci_call, routing_stats, orch_call,
                 rule_call, kb_file, store_call, score_call,
                 reasoning_chains, current_chain, summaries,
                 chain_call, add_call, discover_call>>

----------------------------------------------------------------------------
(* Exact rational arithmetic standing for Python float arithmetic.         *)

\* dict.get(key, default)
DictGet(dict, key, default) == IF key \in DOMAIN dict THEN dict[key] ELSE default

Abs(x) == IF x < 0 THEN -x ELSE x

RECURSIVE GCD(_, _)
GCD(a, b) == IF b = 0 THEN a ELSE GCD(b, a % b)

\* The rational n/d (d > 0) in lowest terms.
R(n, d) ==
    LET g == GCD(Abs(n), d)
    IN  IF g = 0 THEN [n |-> 0, d |-> 1] ELSE [n |-> n \div g, d |-> d \div g]

Zero == R(0, 1)
One  == R(1, 1)

Mul(x, y) == R(x.n * y.n, x.d * y.d)
Add(x, y) == R(x.n * y.d + y.n * x.d, x.d * y.d)
Sub(x, y) == R(x.n * y.d - y.n * x.d, x.d * y.d)
DivInt(x, k) == R(x.n, x.d * k)
Leq(x, y) == x.n * y.d <= y.n * x.d
Lt(x, y)  == x.n * y.d < y.n * x.d
Min(x, y) == IF Leq(x, y) THEN x ELSE y

InUnit(x) == Leq(Zero, x) /\ Leq(x, One)

----------------------------------------------------------------------------
(* pln/pln_rules.py: TruthValue and the calculus of PLNRulesEngine.        *)

\* The dataclass constructor: it stores both components as given.
TruthValue(strength, confidence) ==
    [strength |-> strength, confidence |-> confidence]

DeductionDamping == R(9, 10)
AbductionStrengthFactor == R(8, 10)
AbductionDamping == R(7, 10)
InductionCap == R(9, 10)
EmptyInduction == TruthValue(R(5, 10), Zero)

deduction(premise1_tv, premise2_tv) ==
    TruthValue(Mul(premise1_tv.strength, premise2_tv.strength),
               Mul(Min(premise1_tv.confidence, premise2_tv.confidence),
                   DeductionDamping))

abduction(implication_tv, consequent_tv) ==
    TruthValue(Mul(Mul(implication_tv.strength, consequent_tv.strength),
                   AbductionStrengthFactor),
               Mul(Min(implication_tv.confidence, consequent_tv.confidence),
                   AbductionDamping))

RECURSIVE SumStrength(_)
SumStrength(instances) ==
    IF instances = <<>> THEN Zero
    ELSE Add(Head(instances).strength, SumStrength(Tail(instances)))

\* Mutant of InductionConfidence: the cap min(0.9, .) is dropped.
InductionConfidenceUncapped(count) == R(count, 10)

InductionConfidence(count) == Min(InductionCap, R(count, 10))

induction(instances) ==
    IF instances = <<>> THEN EmptyInduction
    ELSE TruthValue(DivInt(SumStrength(instances), Len(instances)),
                    InductionConfidence(Len(instances)))

\* Mutant of conjunction: the strengths are averaged instead of multiplied.
conjunctionAveraged(tv1, tv2) ==
    TruthValue(DivInt(Add(tv1.strength, tv2.strength), 2),
               Min(tv1.confidence, tv2.confidence))

conjunction(tv1, tv2) ==
    TruthValue(Mul(tv1.strength, tv2.strength),
               Min(tv1.confidence, tv2.confidence))

disjunction(tv1, tv2) ==
    TruthValue(Sub(Add(tv1.strength, tv2.strength),
                   Mul(tv1.strength, tv2.strength)),
               Min(tv1.confidence, tv2.confidence))

negation(tv) == TruthValue(Sub(One, tv.strength), tv.confidence)

----------------------------------------------------------------------------
(* Calls of the calculus.  A call starts from raw (strength, confidence)   *)
(* pairs as they arrive in request data; the caller builds a TruthValue     *)
(* from each pair (views.py, AdvancedPLNView.post) and applies the          *)
(* operator.  tv_call records the raw pairs, the TruthValues built from     *)
(* them and the operator's result.                                         *)

MaxInstances == 11

\* Components a request may carry: four inside [0,1] and two outside.
Components == {R(-1, 2), Zero, R(3, 10), R(1, 2), One, R(3, 2)}
RawPairs == Components \X Components

\* The instance lists given to induction: up to MaxInstances raw pairs.
InstancePairs == {<<Zero, R(1, 2)>>, <<One, One>>}
InstanceLists == UNION {[1..k -> InstancePairs] : k \in 0..MaxInstances}

TVInputs == {<<a>> : a \in RawPairs}
            \cup {<<a, b>> : a \in RawPairs, b \in RawPairs}
            \cup InstanceLists

Construct(raw) == [i \in 1..Len(raw) |-> TruthValue(raw[i][1], raw[i][2])]

ValidTV(tv) == InUnit(tv.strength) /\ InUnit(tv.confidence)

\* The TruthValues the caller has built from the call's raw pairs.
Args == Construct(tv_call.raw)

Apply(op, result) ==
    /\ tv_call.op = "none"
    /\ tv_call' = [tv_call EXCEPT !.op = op, !.tvs = Args, !.out = <<result>>]
    /\ UNCHANGED ExceptTVCall

Deduction ==
    /\ Len(tv_call.raw) = 2
    /\ Apply("deduction", deduction(Args[1], Args[2]))

Abduction ==
    /\ Len(tv_call.raw) = 2
    /\ Apply("abduction", abduction(Args[1], Args[2]))

Induction == Apply("induction", induction(Args))

Conjunction ==
    /\ Len(tv_call.raw) = 2
    /\ Apply("conjunction", conjunction(Args[1], Args[2]))

Disjunction ==
    /\ Len(tv_call.raw) = 2
    /\ Apply("disjunction", disjunction(Args[1], Args[2]))

Negation ==
    /\ Len(tv_call.raw) = 1
    /\ Apply("negation", negation(Args[1]))

----------------------------------------------------------------------------
(* pln/pln_rules.py: the rule table.  A Python dict keeps insertion order  *)
(* and assigning to an existing key keeps the key's position, so the table *)
(* is a sequence of rules with distinct names.  A rule's description is    *)
(* never read by the reasoning and is left out.                            *)

Rule(name, condition, conclusion, truth_value) ==
    [name |-> name, condition |-> condition, conclusion |-> conclusion,
     truth_value |-> truth_value]

\* _initialize_rules: the four domain rules every engine starts with.
InitialRules ==
    << Rule("poverty_implies_priority", "High_Poverty_Region", "High_Priority",
            TruthValue(R(85, 100), R(90, 100))),
       Rule("impact_boosts_priority", "High_Impact_Project", "Increased_Priority",
            TruthValue(R(80, 100), R(85, 100))),
       Rule("corruption_reduces_allocation", "High_Corruption_Risk",
            "Reduced_Allocation", TruthValue(R(75, 100), R(80, 100))),
       Rule("deforestation_needs_intervention", "High_Deforestation",
            "Environmental_Intervention_Needed",
            TruthValue(R(80, 100), R(85, 100))) >>

get_all_rules == rules

RuleIndex(table, name) == {i \in 1..Len(table) : table[i].name = name}

\* self.rules[rule_name] = {...}
DictSet(table, rule) ==
    IF RuleIndex(table, rule.name) = {}
    THEN Append(table, rule)
    ELSE [i \in 1..Len(table) |->
            IF table[i].name = rule.name THEN rule ELSE table[i]]

\* The names, atoms and truth values add_rule is called with.
NewRuleNames == {"r1", "r2"}
Atoms == {"High_Poverty_Region", "High_Priority", "Increased_Priority"}
NewRuleTVs == {TruthValue(R(9, 10), R(8, 10))}

----------------------------------------------------------------------------
(* pln/advanced_pln.py: forward_chaining, one action per pass of its outer *)
(* loop.  fc is the call's frame: its arguments, the loop variable step,   *)
(* the working set (a dict: a function on the atoms it holds), the results *)
(* so far, and the number of passes made.                                  *)

MaxPremises == 2
MaxSteps == 2

PremiseTVs == {TruthValue(R(8, 10), R(9, 10)), TruthValue(R(1, 2), R(1, 2))}
Premise == Atoms \X PremiseTVs
PremiseLists == UNION {[1..k -> Premise] : k \in 0..MaxPremises}

IdleFC ==
    [pc |-> "idle", premises |-> <<>>, max_steps |-> 0, step |-> 0,
     working_set |-> <<>>, results |-> <<>>, passes |-> 0]

InferenceResult(conclusion, truth_value, inference_path, premises_used, rules_applied, depth) ==
    [conclusion |-> conclusion, truth_value |-> truth_value,
     inference_path |-> inference_path, premises_used |-> premises_used,
     rules_applied |-> rules_applied, depth |-> depth]

\* working_set[key] = value
DictPut(dict, key, value) ==
    [k \in DOMAIN dict \cup {key} |-> IF k = key THEN value ELSE dict[k]]

\* {p[0]: p[1] for p in premises}: a later premise overrides an earlier one.
RECURSIVE WorkingSetOf(_)
WorkingSetOf(premises) ==
    IF premises = <<>> THEN <<>>
    ELSE LET n == Len(premises)
         IN  DictPut(WorkingSetOf(SubSeq(premises, 1, n - 1)),
                     premises[n][1], premises[n][2])

\* Mutant of RulePass: the first rule of the table is never tried.
RECURSIVE RulePassSkippingFirstRule(_, _, _, _, _)
RulePassSkippingFirstRule(table, i, working_set, new_inferences, step) ==
    IF i > Len(table) THEN [working_set |-> working_set,
                            new_inferences |-> new_inferences]
    ELSE IF /\ i # 1
            /\ table[i].condition \in DOMAIN working_set
            /\ table[i].conclusion \notin DOMAIN working_set
         THEN LET conclusion_tv ==
                      deduction(working_set[table[i].condition],
                                table[i].truth_value)
              IN  RulePassSkippingFirstRule(table, i + 1,
                      DictPut(working_set, table[i].conclusion, conclusion_tv),
                      Append(new_inferences,
                             InferenceResult(table[i].conclusion, conclusion_tv,
                                 <<table[i].condition, table[i].conclusion>>,
                                 <<table[i].condition>>,
                                 <<table[i].name>>, step + 1)),
                      step)
         ELSE RulePassSkippingFirstRule(table, i + 1, working_set,
                                        new_inferences, step)

\* The inner loop over the rule table from rule i on: the working set is
\* updated while the table is scanned, so a rule later in the table sees
\* the conclusions added earlier in the same pass.
RECURSIVE RulePass(_, _, _, _, _)
RulePass(table, i, working_set, new_inferences, step) ==
    IF i > Len(table) THEN [working_set |-> working_set,
                            new_inferences |-> new_inferences]
    ELSE LET rule == table[i]
             condition == rule.condition
             conclusion == rule.conclusion
         IN  IF condition \in DOMAIN working_set
                 /\ conclusion \notin DOMAIN working_set
             THEN LET conclusion_tv ==
                          deduction(working_set[condition], rule.truth_value)
                  IN  RulePass(table, i + 1,
                               DictPut(working_set, conclusion, conclusion_tv),
                               Append(new_inferences,
                                      InferenceResult(conclusion, conclusion_tv,
                                                      <<condition, conclusion>>,
                                                      <<condition>>,
                                                      <<rule.name>>, step + 1)),
                               step)
             ELSE RulePass(table, i + 1, working_set, new_inferences, step)

\* Mutant of RangeHasNext: the loop no longer stops at max_steps.
RangeUnbounded(step, max_steps) == TRUE

\* for step in range(max_steps)
RangeHasNext(step, max_steps) == step < max_steps

add_rule(rule_name, condition, conclusion, truth_value) ==
    /\ fc.pc = "idle"
    /\ bc.pc = "idle"
    /\ rules' = DictSet(rules, Rule(rule_name, condition, conclusion, truth_value))
    /\ UNCHANGED ExceptRules

AddRule ==
    \E name \in NewRuleNames, condition \in Atoms, conclusion \in Atoms,
       tv \in NewRuleTVs :
        add_rule(name, condition, conclusion, tv)

forward_chaining(premises, max_steps) ==
    /\ fc.pc = "idle"
    /\ bc.pc = "idle"
    /\ fc' = [IdleFC EXCEPT !.pc = "loop", !.premises = premises,
                            !.max_steps = max_steps,
                            !.working_set = WorkingSetOf(premises)]
    /\ UNCHANGED ExceptFC

FCStart ==
    \E premises \in PremiseLists, max_steps \in 0..MaxSteps :
        forward_chaining(premises, max_steps)

\* One pass of the outer loop: extend the results, or break when the pass
\* added nothing.
FCPass ==
    /\ fc.pc = "loop"
    /\ RangeHasNext(fc.step, fc.max_steps)
    /\ LET pass == RulePass(get_all_rules, 1, fc.working_set, <<>>, fc.step)
       IN  fc' = IF pass.new_inferences # <<>>
                 THEN [fc EXCEPT !.working_set = pass.working_set,
                                 !.results = fc.results \o pass.new_inferences,
                                 !.step = fc.step + 1,
                                 !.passes = fc.passes + 1]
                 ELSE [fc EXCEPT !.pc = "done", !.passes = fc.passes + 1]
    /\ UNCHANGED ExceptFC

\* The range is exhausted: the loop ends.
FCExhausted ==
    /\ fc.pc = "loop"
    /\ ~RangeHasNext(fc.step, fc.max_steps)
    /\ fc' = [fc EXCEPT !.pc = "done"]
    /\ UNCHANGED ExceptFC

\* return results
FCReturn ==
    /\ fc.pc = "done"
    /\ fc' = IdleFC
    /\ UNCHANGED ExceptFC

----------------------------------------------------------------------------
(* pln/advanced_pln.py: backward_chaining.  bc.stack is the Python call    *)
(* stack of the recursion, outermost call first; a frame holds the call's  *)
(* goal and max_depth and i, the position in the rule table of the rule    *)
(* whose recursive call is in progress (0 in a call that has just been     *)
(* entered).  One action runs the newest call up to its next recursive     *)
(* call or, when it returns, through the returns it causes in its callers. *)

MaxDepth == 2

KnownTVs == {TruthValue(R(8, 10), R(9, 10))}
KnownFacts == UNION {[S -> KnownTVs] : S \in SUBSET Atoms}

IdleBC ==
    [pc |-> "idle", goal |-> "", known_facts |-> <<>>, max_depth |-> 0,
     stack |-> <<>>, result |-> <<>>, calls |-> 0]

Frame(goal, max_depth, i) == [goal |-> goal, max_depth |-> max_depth, i |-> i]

\* None is the empty sequence, a result r is <<r>>.
None == <<>>
Some(r) == <<r>>

\* Mutant of DepthAllows: the recursion is no longer cut at max_depth 0.
DepthAlwaysAllows(max_depth) == TRUE

\* if max_depth > 0
DepthAllows(max_depth) == max_depth > 0

\* The rules from position i on that make the call recurse.
Matching(table, goal, max_depth, i) ==
    {j \in i..Len(table) : table[j].conclusion = goal /\ DepthAllows(max_depth)}

Least(S) == CHOOSE j \in S : \A k \in S : j <= k

\* Mutant of Compose: the rule applied is not recorded.
ComposeWithoutRule(sub_result, rule, goal) ==
    InferenceResult(goal,
                    deduction(sub_result.truth_value, rule.truth_value),
                    Append(sub_result.inference_path, goal),
                    Append(sub_result.premises_used, rule.condition),
                    sub_result.rules_applied,
                    sub_result.depth + 1)

\* The result a caller builds from its callee's result.
Compose(sub_result, rule, goal) ==
    InferenceResult(goal,
                    deduction(sub_result.truth_value, rule.truth_value),
                    Append(sub_result.inference_path, goal),
                    Append(sub_result.premises_used, rule.condition),
                    Append(sub_result.rules_applied, rule.name),
                    sub_result.depth + 1)

Pop(stack) == SubSeq(stack, 1, Len(stack) - 1)
Top(stack) == stack[Len(stack)]

RECURSIVE Scan(_, _, _), Unwind(_, _, _)

\* The for loop of the newest call from rule i on: recurse on the first
\* matching rule, or fall out of the loop and return None.
Scan(table, stack, i) ==
    LET top == Top(stack)
        found == Matching(table, top.goal, top.max_depth, i)
    IN  IF found # {}
        THEN LET j == Least(found)
             IN  [pc |-> "run",
                  stack |-> Append([stack EXCEPT ![Len(stack)].i = j],
                                   Frame(table[j].condition, top.max_depth - 1, 0)),
                  result |-> None]
        ELSE Unwind(table, Pop(stack), None)

\* A call has returned ret to the caller on top of the stack: a result makes
\* the caller return its composition, None makes it go on with its loop.
Unwind(table, stack, ret) ==
    IF stack = <<>> THEN [pc |-> "done", stack |-> <<>>, result |-> ret]
    ELSE LET top == Top(stack)
         IN  IF ret # None
             THEN Unwind(table, Pop(stack),
                         Some(Compose(ret[1], table[top.i], top.goal)))
             ELSE Scan(table, stack, top.i + 1)

\* The body of a call that has just been entered.
Enter(table, known_facts, stack) ==
    LET top == Top(stack)
    IN  IF top.goal \in DOMAIN known_facts
        THEN Unwind(table, Pop(stack),
                    Some(InferenceResult(top.goal, known_facts[top.goal],
                                         <<top.goal>>, <<>>, <<>>, 0)))
        ELSE Scan(table, stack, 1)

backward_chaining(goal, known_facts, max_depth) ==
    /\ bc.pc = "idle"
    /\ fc.pc = "idle"
    /\ bc' = [IdleBC EXCEPT !.pc = "run", !.goal = goal,
                            !.known_facts = known_facts,
                            !.max_depth = max_depth,
                            !.stack = <<Frame(goal, max_depth, 0)>>]
    /\ UNCHANGED ExceptBC

BCStart ==
    \E goal \in Atoms, known_facts \in KnownFacts, max_depth \in 0..MaxDepth :
        backward_chaining(goal, known_facts, max_depth)

BCStep ==
    /\ bc.pc = "run"
    /\ LET next == Enter(get_all_rules, bc.known_facts, bc.stack)
       IN  bc' = [bc EXCEPT !.pc = next.pc, !.stack = next.stack,
                            !.result = next.result, !.calls = bc.calls + 1]
    /\ UNCHANGED ExceptBC

BCReturn ==
    /\ bc.pc = "done"
    /\ bc' = IdleBC
    /\ UNCHANGED ExceptBC

----------------------------------------------------------------------------
(* causal_inference.py: the causal graph.  causal_graph maps a cause to    *)
(* the list of its edges in the order they were added; an edge that is     *)
(* added again is appended again.  An edge's evidence list is never read   *)
(* by the search or the estimate and is left out.                          *)

MaxEdges == 3
DefaultMaxDepth == 5

CausalVars == {"poverty", "crime", "allocation"}

Edge(effect, strength, confidence) ==
    [effect |-> effect, strength |-> strength, confidence |-> confidence]

EdgesOf(graph, cause) == IF cause \in DOMAIN graph THEN graph[cause] ELSE <<>>

RECURSIVE SumLen(_, _)
SumLen(graph, keys) ==
    IF keys = {} THEN 0
    ELSE LET k == CHOOSE x \in keys : TRUE
         IN  Len(graph[k]) + SumLen(graph, keys \ {k})

EdgeCount(graph) == SumLen(graph, DOMAIN graph)

\* AtomSpaceManager.add_atom: the expression is handed to the MeTTa runner,
\* which adds it to the space.
add_atom(space, atom_expr) == space (+) SetToBag({atom_expr})

\* AtomSpaceManager.add_node: the expression "(: name type)".
add_node(space, node_type, node_name) ==
    add_atom(space, <<":", node_name, node_type>>)

add_causal_relation(cause, effect, strength, confidence) ==
    /\ dfs.pc = "idle"
    /\ ci_call.op = "none"
    /\ EdgeCount(causal_graph) < MaxEdges
    /\ causal_graph' =
           DictPut(causal_graph, cause,
                   Append(EdgesOf(causal_graph, cause),
                          Edge(effect, strength, confidence)))
    /\ atomspace' =
           add_atom(add_node(add_node(atomspace, "ConceptNode", cause),
                             "ConceptNode", effect),
                    <<"CausalLink", cause, effect>>)
    /\ UNCHANGED ExceptGraph

----------------------------------------------------------------------------
(* infer_causal_chain.  dfs.stack is the call stack of the nested dfs,     *)
(* outermost call first; a frame holds the call's current node and depth   *)
(* and i, the position in causal_graph[current] of the edge whose          *)
(* recursive call is in progress (0 in a call that has just been entered). *)
(* path, visited and chains are the closure variables the calls share.     *)

MaxChainDepth == 2

IdleDFS ==
    [pc |-> "idle", start |-> "", target |-> "", max_depth |-> 0,
     stack |-> <<>>, path |-> <<>>, visited |-> {}, chains |-> <<>>]

DFSFrame(current, depth, i) == [current |-> current, depth |-> depth, i |-> i]

Range(seq) == {seq[k] : k \in 1..Len(seq)}

\* Mutant of DepthExceeded: the cut is taken one level too early.
DepthExceededEarly(depth, max_depth) == depth >= max_depth

\* if depth > max_depth
DepthExceeded(depth, max_depth) == depth > max_depth

RECURSIVE DFSScan(_, _, _), DFSUnwind(_, _)

\* The for loop of the newest call from edge i on: recurse into the first
\* effect that is not on the path, or leave the loop, unmark the node and
\* return.
DFSScan(graph, m, i) ==
    LET top == Top(m.stack)
        edges == EdgesOf(graph, top.current)
        found == {k \in i..Len(edges) : edges[k].effect \notin Range(m.path)}
    IN  IF found # {}
        THEN LET k == Least(found)
             IN  [m EXCEPT !.stack = Append([m.stack EXCEPT ![Len(m.stack)].i = k],
                                            DFSFrame(edges[k].effect,
                                                     top.depth + 1, 0)),
                           !.path = Append(m.path, edges[k].effect)]
        ELSE DFSUnwind(graph, [m EXCEPT !.stack = Pop(m.stack),
                                        !.visited = m.visited \ {top.current}])

\* The newest call has returned (its frame is gone): the caller pops the
\* path and goes on with its loop; the outermost call's return ends the
\* search.
DFSUnwind(graph, m) ==
    IF m.stack = <<>> THEN [m EXCEPT !.pc = "done"]
    ELSE DFSScan(graph, [m EXCEPT !.path = Pop(m.path)], Top(m.stack).i + 1)

\* The body of a dfs call that has just been entered.
DFSEnter(graph, m) ==
    LET top == Top(m.stack)
    IN  IF DepthExceeded(top.depth, m.max_depth)
        THEN DFSUnwind(graph, [m EXCEPT !.stack = Pop(m.stack)])
        ELSE IF top.current = m.target
        THEN DFSUnwind(graph, [m EXCEPT !.stack = Pop(m.stack),
                                        !.chains = Append(m.chains, m.path)])
        ELSE IF top.current \in m.visited
        THEN DFSUnwind(graph, [m EXCEPT !.stack = Pop(m.stack)])
        ELSE DFSScan(graph, [m EXCEPT !.visited = m.visited \cup {top.current}], 1)

\* chains = [], visited = set(), dfs(start, end, [start], 0)
DFSInitial(start, end, max_depth) ==
    [IdleDFS EXCEPT !.pc = "run", !.start = start, !.target = end,
                    !.max_depth = max_depth,
                    !.stack = <<DFSFrame(start, 0, 0)>>,
                    !.path = <<start>>]

\* The whole search, as estimate_causal_effect calls it.
RECURSIVE DFSRun(_, _)
DFSRun(graph, m) == IF m.pc = "done" THEN m ELSE DFSRun(graph, DFSEnter(graph, m))

infer_causal_chain(graph, start, end, max_depth) ==
    DFSRun(graph, DFSInitial(start, end, max_depth)).chains

DFSStart ==
    \E start \in CausalVars, end \in CausalVars, max_depth \in 0..MaxChainDepth :
        /\ dfs.pc = "idle"
        /\ ci_call.op = "none"
        /\ dfs' = DFSInitial(start, end, max_depth)
        /\ UNCHANGED ExceptDFS

DFSStep ==
    /\ dfs.pc = "run"
    /\ dfs' = DFSEnter(causal_graph, dfs)
    /\ UNCHANGED ExceptDFS

DFSReturn ==
    /\ dfs.pc = "done"
    /\ dfs' = IdleDFS
    /\ UNCHANGED ExceptDFS

\* The one strength and confidence the chain searches' graphs are built with.
ChainWeight == <<R(1, 2), R(1, 2)>>

AddRelationForChains ==
    \E cause \in CausalVars, effect \in CausalVars :
        add_causal_relation(cause, effect, ChainWeight[1], ChainWeight[2])

----------------------------------------------------------------------------
(* The query orchestrator (orchestrator/orchestrator.py).  A Python string *)
(* is a sequence of one-character strings, so that lower(), strip(),       *)
(* split() and the substring and regular-expression searches are computed  *)
(* on the characters.                                                      *)

MaxCalls == 3
MaxPhrases == 3

UpperCase ==
    <<"A", "B", "C", "D", "E", "F", "G", "H", "I", "J", "K", "L", "M",
      "N", "O", "P", "Q", "R", "S", "T", "U", "V", "W", "X", "Y", "Z">>
LowerCase ==
    <<"a", "b", "c", "d", "e", "f", "g", "h", "i", "j", "k", "l", "m",
      "n", "o", "p", "q", "r", "s", "t", "u", "v", "w", "x", "y", "z">>
Whitespace == {" ", "\t", "\n"}

\* str.lower()
Lower(str) ==
    [k \in 1..Len(str) |->
        IF \E u \in 1..Len(UpperCase) : UpperCase[u] = str[k]
        THEN LowerCase[CHOOSE u \in 1..Len(UpperCase) : UpperCase[u] = str[k]]
        ELSE str[k]]

\* str.strip()
Strip(str) ==
    LET inked == {k \in 1..Len(str) : str[k] \notin Whitespace}
    IN  IF inked = {} THEN <<>>
        ELSE SubSeq(str, Least(inked), CHOOSE k \in inked : \A j \in inked : j <= k)

\* term in query
Contains(query, term) ==
    \E i \in 1..(Len(query) - Len(term) + 1) :
        SubSeq(query, i, i + Len(term) - 1) = term

\* any(term in query for term in terms)
AnyIn(terms, query) == \E k \in 1..Len(terms) : Contains(query, terms[k])

\* len(str.split(sep)), the scan starting at character i: the occurrences
\* of sep are taken from the left and do not overlap.
RECURSIVE SplitLen(_, _, _)
SplitLen(str, sep, i) ==
    IF i > Len(str) - Len(sep) + 1 THEN 1
    ELSE IF SubSeq(str, i, i + Len(sep) - 1) = sep
    THEN 1 + SplitLen(str, sep, i + Len(sep))
    ELSE SplitLen(str, sep, i + 1)

\* str.split(): the maximal runs of characters that are not whitespace.
RECURSIVE SplitWords(_, _, _, _)
SplitWords(str, i, word, words) ==
    IF i > Len(str)
    THEN IF word = <<>> THEN words ELSE Append(words, word)
    ELSE IF str[i] \in Whitespace
    THEN SplitWords(str, i + 1, <<>>,
                    IF word = <<>> THEN words ELSE Append(words, word))
    ELSE SplitWords(str, i + 1, Append(word, str[i]), words)

\* re.search(pattern, query) for a pattern that is a list of literal parts
\* joined by '.*': part k is found at or after character from, and '.'
\* does not match a newline.
RECURSIVE SearchFrom(_, _, _, _)
SearchFrom(pattern, k, query, from) ==
    IF k > Len(pattern) THEN TRUE
    ELSE \E i \in from..(Len(query) - Len(pattern[k]) + 1) :
            /\ SubSeq(query, i, i + Len(pattern[k]) - 1) = pattern[k]
            /\ k > 1 => \A j \in from..(i - 1) : query[j] # "\n"
            /\ SearchFrom(pattern, k + 1, query, i + Len(pattern[k]))

re_search(pattern, query) == SearchFrom(pattern, 1, query, 1)

\* 'the', 'a', 'an', 'is', 'are', 'what', 'how', 'why', 'when', 'where',
\* 'which', 'who'
stop_words ==
    {<<"t", "h", "e">>, <<"a">>, <<"a", "n">>, <<"i", "s">>,
     <<"a", "r", "e">>, <<"w", "h", "a", "t">>, <<"h", "o", "w">>,
     <<"w", "h", "y">>, <<"w", "h", "e", "n">>, <<"w", "h", "e", "r", "e">>,
     <<"w", "h", "i", "c", "h">>, <<"w", "h", "o">>}

_extract_keywords(query) ==
    LET words == SplitWords(query, 1, <<>>, <<>>)
        Kept(w) == w \notin stop_words /\ Len(w) > 2
        keywords == SelectSeq(words, Kept)
    IN  SubSeq(keywords, 1, IF Len(keywords) < 5 THEN Len(keywords) ELSE 5)

\* The word lists of _detect_intent, in the order they are tried.
intent_words ==
    << [intent |-> "calculate", words |->   \* calculate, compute, score
            << <<"c", "a", "l", "c", "u", "l", "a", "t", "e">>,
               <<"c", "o", "m", "p", "u", "t", "e">>,
               <<"s", "c", "o", "r", "e">> >>],
       [intent |-> "explain", words |->     \* explain, why, how, reason
            << <<"e", "x", "p", "l", "a", "i", "n">>,
               <<"w", "h", "y">>,
               <<"h", "o", "w">>,
               <<"r", "e", "a", "s", "o", "n">> >>],
       [intent |-> "compare", words |->     \* compare, difference, versus, vs
            << <<"c", "o", "m", "p", "a", "r", "e">>,
               <<"d", "i", "f", "f", "e", "r", "e", "n", "c", "e">>,
               <<"v", "e", "r", "s", "u", "s">>,
               <<"v", "s">> >>],
       [intent |-> "analyze", words |->     \* analyze, analysis, assess
            << <<"a", "n", "a", "l", "y", "z", "e">>,
               <<"a", "n", "a", "l", "y", "s", "i", "s">>,
               <<"a", "s", "s", "e", "s", "s">> >>],
       [intent |-> "search", words |->
            \* find, search, what documents, which sources, show me
            << <<"f", "i", "n", "d">>,
               <<"s", "e", "a", "r", "c", "h">>,
               <<"w", "h", "a", "t", " ", "d", "o", "c", "u", "m", "e", "n", "t", "s">>,
               <<"w", "h", "i", "c", "h", " ", "s", "o", "u", "r", "c", "e", "s">>,
               <<"s", "h", "o", "w", " ", "m", "e">> >>],
       [intent |-> "recommend", words |->   \* recommend, suggest, should
            << <<"r", "e", "c", "o", "m", "m", "e", "n", "d">>,
               <<"s", "u", "g", "g", "e", "s", "t">>,
               <<"s", "h", "o", "u", "l", "d">> >>] >>

_detect_intent(query) ==
    LET hits == {k \in 1..Len(intent_words) : AnyIn(intent_words[k].words, query)}
    IN  IF hits = {} THEN "general" ELSE intent_words[Least(hits)].intent

\* 'calculate', 'compute', 'score', 'priority', 'value'
calc_terms ==
    << <<"c", "a", "l", "c", "u", "l", "a", "t", "e">>,
       <<"c", "o", "m", "p", "u", "t", "e">>,
       <<"s", "c", "o", "r", "e">>,
       <<"p", "r", "i", "o", "r", "i", "t", "y">>,
       <<"v", "a", "l", "u", "e">> >>

\* 'document', 'pdf', 'source', 'paper', 'research', 'policy', 'mention',
\* 'reference'
doc_terms ==
    << <<"d", "o", "c", "u", "m", "e", "n", "t">>,
       <<"p", "d", "f">>,
       <<"s", "o", "u", "r", "c", "e">>,
       <<"p", "a", "p", "e", "r">>,
       <<"r", "e", "s", "e", "a", "r", "c", "h">>,
       <<"p", "o", "l", "i", "c", "y">>,
       <<"m", "e", "n", "t", "i", "o", "n">>,
       <<"r", "e", "f", "e", "r", "e", "n", "c", "e">> >>

\* 'why', 'how', 'explain', 'reason', 'because', 'rationale'
explain_terms ==
    << <<"w", "h", "y">>,
       <<"h", "o", "w">>,
       <<"e", "x", "p", "l", "a", "i", "n">>,
       <<"r", "e", "a", "s", "o", "n">>,
       <<"b", "e", "c", "a", "u", "s", "e">>,
       <<"r", "a", "t", "i", "o", "n", "a", "l", "e">> >>

\* 'compare', 'difference', 'versus', 'vs', 'better', 'worse'
compare_terms ==
    << <<"c", "o", "m", "p", "a", "r", "e">>,
       <<"d", "i", "f", "f", "e", "r", "e", "n", "c", "e">>,
       <<"v", "e", "r", "s", "u", "s">>,
       <<"v", "s">>,
       <<"b", "e", "t", "t", "e", "r">>,
       <<"w", "o", "r", "s", "e">> >>

\* 'leads to', 'causes', 'results in', 'relationship between', 'if.*then',
\* 'impact on', 'effect of', 'consequence'
multi_hop_indicators ==
    << <<<<"l", "e", "a", "d", "s", " ", "t", "o">>>>,
       <<<<"c", "a", "u", "s", "e", "s">>>>,
       <<<<"r", "e", "s", "u", "l", "t", "s", " ", "i", "n">>>>,
       <<<<"r", "e", "l", "a", "t", "i", "o", "n", "s", "h", "i", "p", " ", "b", "e", "t", "w", "e", "e", "n">>>>,
       <<<<"i", "f">>, <<"t", "h", "e", "n">>>>,
       <<<<"i", "m", "p", "a", "c", "t", " ", "o", "n">>>>,
       <<<<"e", "f", "f", "e", "c", "t", " ", "o", "f">>>>,
       <<<<"c", "o", "n", "s", "e", "q", "u", "e", "n", "c", "e">>>> >>

_needs_calculation(query) == AnyIn(calc_terms, query)
_needs_documents(query) == AnyIn(doc_terms, query)
_needs_explanation(query) == AnyIn(explain_terms, query)
_needs_comparison(query) == AnyIn(compare_terms, query)
_needs_multi_hop(query) ==
    \E k \in 1..Len(multi_hop_indicators) : re_search(multi_hop_indicators[k], query)

\* sum() over booleans
Count(flags) == Cardinality({k \in 1..Len(flags) : flags[k]})

\* requirements >= 1 in place of the two thresholds.
IsVeryComplexWithOneRequirement(query, analysis) ==
    analysis.requires_reasoning \/ analysis.requires_explanation
        \/ analysis.requires_documents \/ analysis.requires_comparison
        \/ analysis.requires_multi_hop

_is_very_complex(query, analysis) ==
    LET requirements == Count(<<analysis.requires_reasoning,
                                analysis.requires_explanation,
                                analysis.requires_documents,
                                analysis.requires_comparison,
                                analysis.requires_multi_hop>>)
        has_multiple_clauses ==
            \/ SplitLen(query, <<"a", "n", "d">>, 1) > 2
            \/ SplitLen(query, <<"o", "r">>, 1) > 2
    IN  requirements >= 3 \/ (requirements >= 2 /\ has_multiple_clauses)

analyze_query(query) ==
    LET query_lower == Strip(Lower(query))
        initial ==
            [query |-> query,
             complexity |-> "SIMPLE",
             requires_reasoning |-> FALSE,
             requires_explanation |-> FALSE,
             requires_documents |-> FALSE,
             requires_calculation |-> FALSE,
             requires_comparison |-> FALSE,
             requires_multi_hop |-> FALSE,
             keywords |-> _extract_keywords(query_lower),
             intent |-> _detect_intent(query_lower)]
        calculation ==
            IF _needs_calculation(query_lower)
            THEN [initial EXCEPT !.requires_calculation = TRUE,
                                 !.complexity = "SIMPLE"]
            ELSE initial
        documents ==
            IF _needs_documents(query_lower)
            THEN [calculation EXCEPT !.requires_documents = TRUE,
                                     !.complexity = "MODERATE"]
            ELSE calculation
        explanation ==
            IF _needs_explanation(query_lower)
            THEN [documents EXCEPT !.requires_explanation = TRUE,
                                   !.complexity = "MODERATE",
                                   !.requires_reasoning = TRUE]
            ELSE documents
        comparison ==
            IF _needs_comparison(query_lower)
            THEN [explanation EXCEPT !.requires_comparison = TRUE,
                                     !.complexity = "MODERATE",
                                     !.requires_reasoning = TRUE]
            ELSE explanation
        multi_hop ==
            IF _needs_multi_hop(query_lower)
            THEN [comparison EXCEPT !.requires_multi_hop = TRUE,
                                    !.complexity = "COMPLEX",
                                    !.requires_reasoning = TRUE]
            ELSE comparison
    IN  IF _is_very_complex(query_lower, multi_hop)
        THEN [multi_hop EXCEPT !.complexity = "VERY_COMPLEX",
                               !.requires_reasoning = TRUE]
        ELSE multi_hop

\* if analysis['requires_documents'], placed after the calculation rows.
DocumentsCheckedLate(analysis) ==
    IF analysis.complexity = "SIMPLE" /\ analysis.requires_calculation
    THEN "METTA"
    ELSE IF analysis.requires_explanation /\ analysis.requires_calculation
    THEN "HYBRID_METTA"
    ELSE IF analysis.requires_documents
    THEN "COGNITIVE"
    ELSE "METTA"

\* intent in ['compare'] in place of intent in ['compare', 'analyze']
IsCompareOnly(intent) == intent = "compare"

\* intent in ['compare', 'analyze']
IsAnalysisIntent(intent) == intent \in {"compare", "analyze"}

_determine_routing(analysis) ==
    LET complexity == analysis.complexity
        intent == analysis.intent
    IN  IF analysis.requires_documents
        THEN "COGNITIVE"
        ELSE IF analysis.requires_multi_hop
        THEN "COGNITIVE"
        ELSE IF complexity = "SIMPLE" /\ analysis.requires_calculation
        THEN "METTA"
        ELSE IF analysis.requires_explanation /\ analysis.requires_calculation
        THEN "HYBRID_METTA"
        ELSE IF IsAnalysisIntent(intent) /\ ~analysis.requires_explanation
        THEN "GATEWAY"
        ELSE IF IsAnalysisIntent(intent) /\ analysis.requires_explanation
        THEN "HYBRID_GATEWAY"
        ELSE IF complexity \in {"COMPLEX", "VERY_COMPLEX"}
        THEN "COGNITIVE"
        ELSE IF complexity = "MODERATE" /\ analysis.requires_reasoning
        THEN "COGNITIVE"
        ELSE "METTA"

\* The rationale is the base sentence and the reasons appended to it.
_get_routing_rationale(routing, analysis) ==
    LET rationales ==
            [METTA |-> "Simple calculation - using fast MeTTa engine",
             GATEWAY |-> "Analysis required - using uAgents Gateway",
             COGNITIVE |-> "Complex reasoning needed - using OpenCog cognitive engine",
             HYBRID_METTA |-> "Calculation with explanation - combining MeTTa + OpenCog",
             HYBRID_GATEWAY |-> "Analysis with reasoning - combining Gateway + OpenCog"]
        reasons ==
            (IF analysis.requires_documents THEN <<"document search">> ELSE <<>>)
            \o (IF analysis.requires_explanation THEN <<"explanation">> ELSE <<>>)
            \o (IF analysis.requires_multi_hop THEN <<"multi-hop reasoning">> ELSE <<>>)
    IN  [base |-> DictGet(rationales, routing, "Default routing"),
         reasons |-> reasons]

InitialStats ==
    [total_queries |-> 0, metta_queries |-> 0, gateway_queries |-> 0,
     cognitive_queries |-> 0, hybrid_queries |-> 0]

\* The counters with the hybrid routings counted as cognitive ones.
CounterOfHybridAsCognitive(routing) ==
    CASE routing = "METTA" -> "metta_queries"
      [] routing = "GATEWAY" -> "gateway_queries"
      [] routing \in {"COGNITIVE", "HYBRID_METTA", "HYBRID_GATEWAY"} -> "cognitive_queries"

\* The counter route_query increments for a routing.
CounterOf(routing) ==
    CASE routing = "METTA" -> "metta_queries"
      [] routing = "GATEWAY" -> "gateway_queries"
      [] routing = "COGNITIVE" -> "cognitive_queries"
      [] routing \in {"HYBRID_METTA", "HYBRID_GATEWAY"} -> "hybrid_queries"

\* route_query on an orchestrator whose counters are stats; analysis is
\* what analyze_query returned for the query.
route_query(stats, analysis) ==
    LET counted == [stats EXCEPT !.total_queries = @ + 1]
        routing == _determine_routing(analysis)
    IN  [routing_stats |-> [counted EXCEPT ![CounterOf(routing)] = @ + 1],
         result |-> [routing |-> routing,
                     analysis |-> analysis,
                     rationale |-> _get_routing_rationale(routing, analysis)]]

get_stats(stats) ==
    LET total == stats.total_queries
        Percent(count) == R(count * 100, total)
    IN  IF total = 0
        THEN [counters |-> stats, percentages |-> <<>>]
        ELSE [counters |-> stats,
              percentages |->
                  [metta |-> Percent(stats.metta_queries),
                   gateway |-> Percent(stats.gateway_queries),
                   cognitive |-> Percent(stats.cognitive_queries),
                   hybrid |-> Percent(stats.hybrid_queries)]]

\* The phrases queries are made of; a query is at most MaxPhrases of them,
\* in this order, each followed by a blank.
Phrases ==
    << <<"C", "a", "l", "c", "u", "l", "a", "t", "e">>,
       <<"W", "h", "y">>,
       <<"c", "o", "m", "p", "a", "r", "e">>,
       <<"b", "e", "c", "a", "u", "s", "e">>,
       <<"b", "e", "t", "t", "e", "r">>,
       <<"t", "h", "e", " ", "P", "o", "l", "i", "c", "y">>,
       <<"c", "a", "u", "s", "e", "s">>,
       <<"a", "n", "a", "l", "y", "z", "e">>,
       <<"i", "n", "c", "o", "m", "e", " ", "a", "n", "d", " ", "h", "e", "a", "l", "t", "h", " ", "a", "n", "d", " ", "c", "r", "i", "m", "e">>,
       <<"p", "r", "i", "o", "r", "i", "t", "y">>,
       <<"i", "f", " ", "p", "o", "o", "r", " ", "t", "h", "e", "n", " ", "f", "u", "n", "d">> >>

Join(chosen) ==
    LET RECURSIVE From(_)
        From(k) ==
            IF k > Len(Phrases) THEN <<>>
            ELSE IF k \in chosen THEN Phrases[k] \o <<" ">> \o From(k + 1)
            ELSE From(k + 1)
    IN  From(1)

Queries ==
    {Join(chosen) : chosen \in {c \in SUBSET (1..Len(Phrases)) :
                                    Cardinality(c) <= MaxPhrases}}

\* analyze_query on every query, computed once.
AnalysisOf == [query \in Queries |-> analyze_query(query)]

Complexities == {"SIMPLE", "MODERATE", "COMPLEX", "VERY_COMPLEX"}
Intents ==
    {"calculate", "explain", "compare", "analyze", "search", "recommend", "general"}

\* Every combination of complexity, intent and requirement flags.
Analyses ==
    [query : {<<>>},
     complexity : Complexities,
     requires_reasoning : BOOLEAN,
     requires_explanation : BOOLEAN,
     requires_documents : BOOLEAN,
     requires_calculation : BOOLEAN,
     requires_comparison : BOOLEAN,
     requires_multi_hop : BOOLEAN,
     keywords : {<<>>},
     intent : Intents]

NoOrchCall == [op |-> "none", args |-> <<>>, result |-> <<>>]

RouteQuery ==
    \E query \in Queries :
        /\ orch_call.op = "none"
        /\ routing_stats.total_queries < MaxCalls
        /\ LET r == route_query(routing_stats, AnalysisOf[query])
           IN  /\ routing_stats' = r.routing_stats
               /\ orch_call' = [op |-> "route_query", args |-> query,
                                result |-> r.result]
        /\ UNCHANGED ExceptOrch

AnalyzeQuery ==
    \E query \in Queries :
        /\ orch_call.op = "none"
        /\ orch_call' = [op |-> "analyze_query", args |-> query,
                         result |-> AnalysisOf[query]]
        /\ UNCHANGED <<routing_stats, ExceptOrch>>

DetermineRouting ==
    \E analysis \in Analyses :
        /\ orch_call.op = "none"
        /\ orch_call' = [op |-> "_determine_routing", args |-> analysis,
                         result |-> _determine_routing(analysis)]
        /\ UNCHANGED <<routing_stats, ExceptOrch>>

GetStats ==
    /\ orch_call.op = "none"
    /\ orch_call' = [op |-> "get_stats", args |-> <<>>,
                     result |-> get_stats(routing_stats)]
    /\ UNCHANGED <<routing_stats, ExceptOrch>>

\* The caller has taken the result.
OrchReturn ==
    /\ orch_call.op # "none"
    /\ orch_call' = NoOrchCall
    /\ UNCHANGED <<routing_stats, ExceptOrch>>

----------------------------------------------------------------------------
(* estimate_causal_effect, one action for the whole call.  An intervention *)
(* is a dict from variables to values; None and the empty dict are both    *)
(* false in "if intervention" and are the empty function here.             *)

IndirectPenalty == R(8, 10)

\* The (strength, confidence) pairs relations are added with.
Weights == {<<R(1, 2), R(4, 5)>>, <<R(9, 10), R(3, 5)>>}
Interventions == {<<>>, "poverty" :> R(1, 2)}

NoCICall ==
    [op |-> "none", cause |-> "", effect |-> "", intervention |-> <<>>,
     result |-> <<>>]

\* min(chains, key=len): the first chain of the least length.
ShortestChain(chains) ==
    chains[Least({k \in 1..Len(chains) :
                     \A j \in 1..Len(chains) : Len(chains[k]) <= Len(chains[j])})]

\* The loop over causal_graph[c] for one hop c -> e, from edge k on: every
\* edge to e multiplies the strength and lowers the minimum confidence.
RECURSIVE HopFold(_, _, _, _)
HopFold(edges, e, k, acc) ==
    IF k > Len(edges) THEN acc
    ELSE IF edges[k].effect = e
    THEN HopFold(edges, e, k + 1,
                 [total_strength |-> Mul(acc.total_strength, edges[k].strength),
                  min_confidence |-> Min(acc.min_confidence, edges[k].confidence)])
    ELSE HopFold(edges, e, k + 1, acc)

\* for i in range(len(shortest_chain) - 1), from hop i on.
RECURSIVE ChainFold(_, _, _, _)
ChainFold(graph, chain, i, acc) ==
    IF i > Len(chain) - 1 THEN acc
    ELSE ChainFold(graph, chain, i + 1,
                   HopFold(EdgesOf(graph, chain[i]), chain[i + 1], 1, acc))

estimate_causal_effect(graph, cause, effect, intervention) ==
    LET edges == EdgesOf(graph, cause)
        direct == {k \in 1..Len(edges) : edges[k].effect = effect}
        chains == infer_causal_chain(graph, cause, effect, DefaultMaxDepth)
    IN  IF direct # {}
        THEN LET effect_info == edges[Least(direct)]
             IN  [estimated_effect |->
                      IF DOMAIN intervention # {}
                      THEN Mul(effect_info.strength,
                               DictGet(intervention, cause, One))
                      ELSE effect_info.strength,
                  confidence |-> effect_info.confidence,
                  method |-> "Direct causal relation",
                  chain |-> <<>>]
        ELSE IF chains # <<>>
        THEN LET shortest_chain == ShortestChain(chains)
                 total == ChainFold(graph, shortest_chain, 1,
                                    [total_strength |-> One,
                                     min_confidence |-> One])
             IN  [estimated_effect |-> total.total_strength,
                  confidence |-> Mul(total.min_confidence, IndirectPenalty),
                  method |-> "Indirect",
                  chain |-> shortest_chain]
        ELSE [estimated_effect |-> Zero,
              confidence |-> Zero,
              method |-> "No causal path found",
              chain |-> <<>>]

AddRelation ==
    \E cause \in CausalVars, effect \in CausalVars, w \in Weights :
        add_causal_relation(cause, effect, w[1], w[2])

Estimate ==
    \E cause \in CausalVars, effect \in CausalVars, intervention \in Interventions :
        /\ ci_call.op = "none"
        /\ dfs.pc = "idle"
        /\ ci_call' = [op |-> "estimate_causal_effect", cause |-> cause,
                       effect |-> effect, intervention |-> intervention,
                       result |-> estimate_causal_effect(causal_graph, cause,
                                                         effect, intervention)]
        /\ UNCHANGED ExceptCICall

\* The caller has taken the result.
EstimateReturn ==
    /\ ci_call.op # "none"
    /\ ci_call' = NoCICall
    /\ UNCHANGED ExceptCICall

----------------------------------------------------------------------------
(* apply_rule (pln/pln_rules.py).  The evidence is a dict from atoms to    *)
(* truth flags.                                                            *)

NoRuleCall == [op |-> "none", rule_name |-> "", evidence |-> <<>>, result |-> <<>>]

\* The rule names apply_rule is called with: the seeded rules, the rules
\* add_rule may have added, and a name no rule ever has.
AppliedRuleNames ==
    {"poverty_implies_priority", "impact_boosts_priority", "r1", "r2", "no_such_rule"}

Evidences == {<<>>} \cup UNION {[{a} -> BOOLEAN] : a \in Atoms}

\* apply_rule on a table: None for a name that is not in the table.
apply_rule(table, rule_name, evidence) ==
    IF RuleIndex(table, rule_name) = {}
    THEN None
    ELSE LET rule == table[Least(RuleIndex(table, rule_name))]
             condition_met == DictGet(evidence, rule.condition, FALSE)
         IN  IF condition_met
             THEN Some([rule |-> rule_name,
                        condition |-> rule.condition,
                        conclusion |-> rule.conclusion,
                        truth_value |-> rule.truth_value,
                        applied |-> TRUE])
             ELSE Some([rule |-> rule_name,
                        condition |-> rule.condition,
                        applied |-> FALSE,
                        reason |-> "Condition not met in evidence"])

ApplyRule ==
    \E rule_name \in AppliedRuleNames, evidence \in Evidences :
        /\ rule_call.op = "none"
        /\ rule_call' = [op |-> "apply_rule", rule_name |-> rule_name,
                         evidence |-> evidence,
                         result |-> apply_rule(rules, rule_name, evidence)]
        /\ UNCHANGED ExceptRuleCall

\* The caller has taken the result.
ApplyRuleReturn ==
    /\ rule_call.op # "none"
    /\ rule_call' = NoRuleCall
    /\ UNCHANGED ExceptRuleCall

----------------------------------------------------------------------------
(* The AtomSpace (atomspace_manager.py) and the KnowledgeStore built on it *)
(* (knowledge_store.py).  An atom is a tuple of strings: an expression is  *)
(* the tuple of its symbols, (: Poverty ConceptNode) being                 *)
(* <<":", "Poverty", "ConceptNode">>, and a lone symbol is a tuple of one. *)
(* The runner adds every expression it is handed to the space and keeps    *)
(* duplicates; a match gives one result per stored atom that matches, and  *)
(* the order of the results is left open: lists of results are bags.       *)

MaxAtoms == 5

NodeNames == {"Poverty", "Region_Nairobi"}
NodeTypes == {"ConceptNode", "PredicateNode"}
LinkTypes == {"InheritanceLink"}

\* The region_data add_region is called with, and the text of its values.
RegionData == {<<>>, "poverty_index" :> R(8, 10), "poverty_index" :> R(5, 10)}
LinkTargets == {"Poverty"}
ValueText(value) ==
    CASE value = R(8, 10) -> "0.8"
      [] value = R(5, 10) -> "0.5"

NoFile == [exists |-> FALSE, lines |-> EmptyBag]
NoStoreCall == [op |-> "none", args |-> <<>>, result |-> <<>>]

\* AtomSpaceManager.add_link: the expression "(link_type source target)".
add_link(space, link_type, source, target) ==
    add_atom(space, <<link_type, source, target>>)

\* The atoms "(: name ConceptNode)" of a space.
ConceptAtoms(space) ==
    {atom \in BagToSet(space) :
        Len(atom) = 3 /\ atom[1] = ":" /\ atom[3] = "ConceptNode"}

\* get_all_concepts: the query "!(match &self (: $concept ConceptNode)
\* $concept)", one name per stored atom that matches.
get_all_concepts(space) ==
    [name \in {atom[2] : atom \in ConceptAtoms(space)} |->
        space[<<":", name, "ConceptNode">>]]

\* AtomSpaceManager.get_stats
atomspace_get_stats(space) ==
    [total_concepts |-> BagCardinality(get_all_concepts(space)),
     status |-> "active",
     backend |-> "Hyperon/MeTTa"]

\* export_knowledge: one line, the concept and a newline, per concept.
export_knowledge(space) ==
    LET concepts == get_all_concepts(space)
    IN  [exists |-> TRUE,
         lines |-> [line \in {<<name, "\n">> : name \in DOMAIN concepts} |->
                       concepts[line[1]]]]

\* import_knowledge: add_atom(line.strip()) for every line of the file.
import_knowledge(space, file) ==
    space (+) [atom \in {Strip(line) : line \in DOMAIN file.lines} |->
                  file.lines[CHOOSE line \in DOMAIN file.lines : Strip(line) = atom]]

\* add_concept_with_properties: the node, then one atom
\* "(= (prop_name concept_name) prop_value)" per property.
add_concept_with_properties(space, concept_name, properties) ==
    add_node(space, "ConceptNode", concept_name)
        (+) SetToBag({<<"=", prop_name, concept_name, ValueText(properties[prop_name])>> :
                         prop_name \in DOMAIN properties})

\* KnowledgeStore.add_region
add_region(space, region_id, region_data) ==
    LET node == add_node(space, "ConceptNode", region_id)
        typed == add_link(node, "InheritanceLink", region_id, "Region")
        described == add_concept_with_properties(typed, region_id, region_data)
        poverty == DictGet(region_data, "poverty_index", Zero)
    IN  IF Lt(R(7, 10), poverty)
        THEN add_link(described, "InheritanceLink", region_id, "High_Poverty_Region")
        ELSE IF Lt(R(4, 10), poverty)
        THEN add_link(described, "InheritanceLink", region_id, "Medium_Poverty_Region")
        ELSE add_link(described, "InheritanceLink", region_id, "Low_Poverty_Region")

\* A call that changes the store to space and returns result.
StoreUpdate(op, args, space, result) ==
    /\ store_call.op = "none"
    /\ BagCardinality(space) <= MaxAtoms
    /\ atomspace' = space
    /\ store_call' = [op |-> op, args |-> args, result |-> result]
    /\ UNCHANGED ExceptStore

\* A call that reads the store and returns result.
StoreRead(op, result) ==
    /\ store_call.op = "none"
    /\ store_call' = [op |-> op, args |-> <<>>, result |-> result]
    /\ UNCHANGED ExceptStoreCall

AddNode ==
    \E node_type \in NodeTypes, node_name \in NodeNames :
        StoreUpdate("add_node", <<node_type, node_name>>,
                    add_node(atomspace, node_type, node_name), TRUE)

AddLink ==
    \E link_type \in LinkTypes, source \in NodeNames, target \in LinkTargets :
        StoreUpdate("add_link", <<link_type, source, target>>,
                    add_link(atomspace, link_type, source, target), TRUE)

AddRegion ==
    \E region_data \in RegionData :
        StoreUpdate("add_region", <<"Region_Nairobi">>,
                    add_region(atomspace, "Region_Nairobi", region_data), TRUE)

GetAllConcepts == StoreRead("get_all_concepts", get_all_concepts(atomspace))

AtomSpaceGetStats == StoreRead("get_stats", atomspace_get_stats(atomspace))

ExportKnowledge ==
    /\ store_call.op = "none"
    /\ kb_file' = export_knowledge(atomspace)
    /\ store_call' = [op |-> "export_knowledge", args |-> <<>>, result |-> TRUE]
    /\ UNCHANGED ExceptExport

\* open() of a file that does not exist raises, and import_knowledge
\* returns False.
ImportKnowledge ==
    IF kb_file.exists
    THEN StoreUpdate("import_knowledge", <<>>,
                     import_knowledge(atomspace, kb_file), TRUE)
    ELSE StoreRead("import_knowledge", FALSE)

\* clear_atomspace: a new runner with an empty space.
ClearAtomspace == StoreUpdate("clear_atomspace", <<>>, EmptyBag, TRUE)

\* The caller has taken the result.
StoreReturn ==
    /\ store_call.op # "none"
    /\ store_call' = NoStoreCall
    /\ UNCHANGED ExceptStoreCall

----------------------------------------------------------------------------
(* The ConfidenceScorer (confidence_scorer.py).  A step handed to          *)
(* score_reasoning_chain is a dict; has_truth_value says whether it has    *)
(* the key 'truth_value', and the value under the key is a TruthValue      *)
(* object, a dict of strength and confidence, or None.  An exception       *)
(* leaving a call is the result Raised(kind).                              *)

MaxScoredSteps == 6

Raised(kind) == [raised |-> kind]
IsRaised(result) == "raised" \in DOMAIN result

NoScoreCall == [op |-> "none", chain |-> <<>>, result |-> <<>>]

\* The value of a step's 'truth_value' key.
TruthValueObject(tv) ==
    [kind |-> "TruthValue", strength |-> tv.strength, confidence |-> tv.confidence]
TruthValueDict(tv) ==
    [kind |-> "dict", strength |-> tv.strength, confidence |-> tv.confidence]
TruthValueNone == [kind |-> "None", strength |-> Zero, confidence |-> Zero]

StepDict(has_truth_value, truth_value, evidence) ==
    [has_truth_value |-> has_truth_value, truth_value |-> truth_value,
     evidence |-> evidence]

\* The chain_length component.
ChainLengthFactor(chain_length) ==
    IF chain_length = 1 THEN One
    ELSE IF chain_length <= 3 THEN R(9, 10)
    ELSE IF chain_length <= 5 THEN R(7, 10)
    ELSE R(5, 10)

DefaultTruthValues == R(7, 10)

\* The evidence component used when no step carries evidence, raised to 1.0.
FullEvidenceScore == One

NoEvidenceScore == R(5, 10)

\* sum(step['truth_value'].confidence for step in chain if 'truth_value' in
\* step), from step k on.
RECURSIVE SumConfidence(_, _)
SumConfidence(chain, k) ==
    IF k > Len(chain) THEN Zero
    ELSE IF chain[k].has_truth_value
    THEN Add(chain[k].truth_value.confidence, SumConfidence(chain, k + 1))
    ELSE SumConfidence(chain, k + 1)

\* Reading .confidence raises on a value that is not a TruthValue object.
ConfidenceRaises(chain) ==
    /\ chain[1].has_truth_value
    /\ \E k \in 1..Len(chain) :
           chain[k].has_truth_value /\ chain[k].truth_value.kind # "TruthValue"

\* A step dict with a non-empty 'evidence'.
CarriesEvidence(step) == step.evidence # <<>>

EvidenceFactor(chain) ==
    LET evidence_count == Cardinality({k \in 1..Len(chain) : CarriesEvidence(chain[k])})
    IN  IF evidence_count > 0
        THEN Min(One, R(evidence_count, Len(chain)))
        ELSE NoEvidenceScore

\* The score against which 'high' is tested, lowered to 0.8.
HighLevelStrict == R(8, 10)

HighLevel == R(7, 10)

_get_confidence_level(score) ==
    IF Leq(R(9, 10), score) THEN "very_high"
    ELSE IF Leq(HighLevel, score) THEN "high"
    ELSE IF Leq(R(5, 10), score) THEN "medium"
    ELSE IF Leq(R(3, 10), score) THEN "low"
    ELSE "very_low"

\* The explanation is the sentence chosen by the level, completed with the
\* chain length.
_generate_explanation(overall, components, chain_length) ==
    [level |-> _get_confidence_level(overall), chain_length |-> chain_length]

ConfidenceScore(overall_score, level, components, explanation) ==
    [overall_score |-> overall_score, level |-> level,
     components |-> components, explanation |-> explanation]

score_reasoning_chain(chain) ==
    IF chain = <<>>
    THEN ConfidenceScore(Zero, "very_low", [chain_length |-> Zero],
                         "No reasoning chain provided")
    ELSE IF ConfidenceRaises(chain)
    THEN Raised("AttributeError")
    ELSE LET chain_length == Len(chain)
             components ==
                 [chain_length |-> ChainLengthFactor(chain_length),
                  truth_values |->
                      IF chain[1].has_truth_value
                      THEN DivInt(SumConfidence(chain, 1), Len(chain))
                      ELSE DefaultTruthValues,
                  evidence |-> EvidenceFactor(chain)]
             overall ==
                 Add(Add(Mul(components.chain_length, R(3, 10)),
                         Mul(components.truth_values, R(5, 10))),
                     Mul(components.evidence, R(2, 10)))
         IN  ConfidenceScore(overall, _get_confidence_level(overall), components,
                             _generate_explanation(overall, components, chain_length))

\* The steps score_reasoning_chain is called with directly: with or without
\* a TruthValue object, with or without evidence.
ScoredConfidences == {R(1, 2), R(71, 100)}
ScoredSteps ==
    {StepDict(FALSE, TruthValueNone, evidence) : evidence \in {<<>>, <<"Evidence 1">>}}
    \cup {StepDict(TRUE, TruthValueObject(TruthValue(R(9, 10), c)), evidence) :
            c \in ScoredConfidences, evidence \in {<<>>, <<"Evidence 1">>}}

\* The steps of a chain converted by to_dict, handed over by a caller.
ConvertedSteps ==
    {StepDict(TRUE, TruthValueDict(TruthValue(R(9, 10), R(8, 10))), <<>>),
     StepDict(TRUE, TruthValueNone, <<>>)}

ScoredChains ==
    UNION {[1..n -> ScoredSteps] : n \in 0..MaxScoredSteps}
    \cup UNION {[1..n -> ScoredSteps \cup ConvertedSteps] : n \in 1..2}

ScoreReasoningChain ==
    /\ score_call.op = "none"
    /\ \E chain \in ScoredChains :
           score_call' = [op |-> "score_reasoning_chain", chain |-> chain,
                          result |-> score_reasoning_chain(chain)]
    /\ UNCHANGED ExceptScoreCall

\* The caller has taken the result.
ScoreReturn ==
    /\ score_call.op # "none"
    /\ score_call' = NoScoreCall
    /\ UNCHANGED ExceptScoreCall

----------------------------------------------------------------------------
(* ReasoningStep, ReasoningChain and ReasoningChainBuilder                 *)
(* (reasoning_chain.py) and CognitiveReasoner.reason_with_pln              *)
(* (reasoner.py).  A chain is known by its identity; callers keep the      *)
(* chain start_chain returned and the summaries they were given.           *)

MaxChainSteps == 2

\* The identities of the reasoning_chains, in the order they are made.
ChainIds == <<"chain1", "chain2">>
ChainIdSet == {ChainIds[k] : k \in 1..Len(ChainIds)}

NoChain == [exists |-> FALSE, goal |-> "", steps |-> <<>>, overall_confidence |-> None]
NoChains == [id \in ChainIdSet |-> NoChain]
NoSummaries == [id \in ChainIdSet |-> None]
NoChainCall == [op |-> "none", args |-> <<>>, result |-> <<>>]

\* round(x, ndigits) for x >= 0, scale = 10 ^ ndigits: the nearest multiple
\* of 1/scale, a tie going to the even one.
Round(x, scale) ==
    LET q == (x.n * scale) \div x.d
        twice == 2 * ((x.n * scale) % x.d)
    IN  IF twice < x.d THEN R(q, scale)
        ELSE IF twice > x.d THEN R(q + 1, scale)
        ELSE R(IF q % 2 = 0 THEN q ELSE q + 1, scale)

\* ConfidenceScore.to_dict.
score_to_dict(score) ==
    [overall_score |-> Round(score.overall_score, 1000),
     level |-> score.level,
     percentage |-> Round(Mul(score.overall_score, R(100, 1)), 10),
     components |-> [k \in DOMAIN score.components |-> Round(score.components[k], 1000)],
     explanation |-> score.explanation]

ReasoningStep(step_number, premise, conclusion, rule_applied, truth_value, evidence, confidence_level) ==
    [step_number |-> step_number, premise |-> premise, conclusion |-> conclusion,
     rule_applied |-> rule_applied, truth_value |-> truth_value,
     evidence |-> evidence, confidence_level |-> confidence_level]

\* ReasoningStep.to_dict: the 'truth_value' key is always there, its value a
\* dict of the two numbers or None.
step_to_dict(step) ==
    [step |-> step.step_number, premise |-> step.premise,
     conclusion |-> step.conclusion, rule |-> step.rule_applied,
     has_truth_value |-> TRUE,
     truth_value |-> IF step.truth_value # None
                     THEN TruthValueDict(step.truth_value[1])
                     ELSE TruthValueNone,
     evidence |-> step.evidence, confidence_level |-> step.confidence_level]

\* [step.to_dict() for step in self.steps]
StepsToDict(steps) == [k \in 1..Len(steps) |-> step_to_dict(steps[k])]

ReasoningChain(goal) ==
    [exists |-> TRUE, goal |-> goal, steps |-> <<>>, overall_confidence |-> None]

\* The confidence level add_step gives a step.
StepConfidenceLevel(truth_value) ==
    IF truth_value # None
    THEN IF Leq(R(8, 10), truth_value[1].confidence) THEN "high"
         ELSE IF Leq(R(6, 10), truth_value[1].confidence) THEN "medium"
         ELSE "low"
    ELSE "medium"

\* Mutant of NewStep: the steps are numbered from 0.
NewStepNumberedFromZero(chain, premise, conclusion, rule, truth_value, evidence) ==
    ReasoningStep(Len(chain.steps), premise, conclusion, rule, truth_value,
                  evidence, StepConfidenceLevel(truth_value))

\* The step add_step makes.
NewStep(chain, premise, conclusion, rule, truth_value, evidence) ==
    ReasoningStep(Len(chain.steps) + 1, premise, conclusion, rule, truth_value,
                  evidence, StepConfidenceLevel(truth_value))

\* The chain after add_step.
add_step(chain, premise, conclusion, rule, truth_value, evidence) ==
    [chain EXCEPT !.steps =
        Append(@, NewStep(chain, premise, conclusion, rule, truth_value, evidence))]

\* self.overall_confidence = confidence; return confidence.to_dict(). An
\* exception of the scorer leaves overall_confidence as it was.
ConfidenceSet(chain, confidence) ==
    IF IsRaised(confidence)
    THEN [chain |-> chain, result |-> confidence]
    ELSE [chain |-> [chain EXCEPT !.overall_confidence = Some(confidence)],
          result |-> score_to_dict(confidence)]

\* The chain after calculate_confidence and what the call gives back.
calculate_confidence(chain) ==
    ConfidenceSet(chain, score_reasoning_chain(StepsToDict(chain.steps)))

\* ' -> '.join(premises + [goal]), kept as the list that is joined.
PathOf(chain) ==
    Append([k \in 1..Len(chain.steps) |-> chain.steps[k].premise], chain.goal)

\* The dict get_chain_summary returns once the confidence is there.
SummaryOf(chain, computed) ==
    IF IsRaised(computed.result)
    THEN computed
    ELSE [chain |-> computed.chain,
          result |-> [goal |-> chain.goal,
                      total_steps |-> Len(chain.steps),
                      confidence |-> score_to_dict(computed.chain.overall_confidence[1]),
                      steps |-> StepsToDict(chain.steps),
                      path |-> PathOf(chain)]]

\* The chain after get_chain_summary and what the call gives back: the
\* confidence is calculated only when there is none yet.
get_chain_summary(chain) ==
    SummaryOf(chain, IF chain.overall_confidence = None
                     THEN calculate_confidence(chain)
                     ELSE [chain |-> chain, result |-> <<>>])

\* The identity the next chain made gets; None when all are in use.
FreeChainIds == {k \in 1..Len(ChainIds) : ~reasoning_chains[ChainIds[k]].exists}
NextChainId ==
    IF FreeChainIds = {} THEN None
    ELSE Some(ChainIds[CHOOSE k \in FreeChainIds : \A j \in FreeChainIds : k <= j])

RECURSIVE StepsFrom(_, _)
StepsFrom(table, k) ==
    IF k > Len(ChainIds) THEN 0
    ELSE Len(table[ChainIds[k]].steps) + StepsFrom(table, k + 1)

\* The number of steps held by all reasoning_chains.
TotalSteps == StepsFrom(reasoning_chains, 1)

\* The premises of a reason_with_pln request.
PremiseDict(statement, strength, confidence) ==
    [statement |-> statement, strength |-> strength, confidence |-> confidence]

\* The loop of reason_with_pln from premise k on: each premise is deduced
\* from the running truth value and added as a step.
RECURSIVE PremiseLoop(_, _, _, _)
PremiseLoop(chain, premises, k, current_tv) ==
    IF k > Len(premises) THEN chain
    ELSE LET premise == premises[k]
             premise_tv == TruthValue(premise.strength, premise.confidence)
             next_tv == deduction(current_tv, premise_tv)
         IN  PremiseLoop(add_step(chain, premise.statement, "intermediate",
                                  "PLN Deduction", Some(next_tv), <<>>),
                         premises, k + 1, next_tv)

\* result['success'] = True on the summary; an exception is caught and
\* reported as {'success': False, 'error': ...}.
PLNResult(done) ==
    IF IsRaised(done.result)
    THEN [chain |-> done.chain, summary |-> None,
          result |-> [success |-> FALSE, error |-> done.result.raised]]
    ELSE [chain |-> done.chain, summary |-> Some(done.result),
          result |-> [success |-> TRUE, goal |-> done.result.goal,
                      total_steps |-> done.result.total_steps,
                      confidence |-> done.result.confidence,
                      steps |-> done.result.steps,
                      path |-> done.result.path]]

\* reason_with_pln on the chain it starts: the chain it leaves, the summary
\* it took and its result.
reason_with_pln(premises, goal) ==
    PLNResult(get_chain_summary(
        PremiseLoop(ReasoningChain(goal), premises, 1, TruthValue(One, One))))

ChainGoals == {"G1", "G2"}
StepPremises == {"A"}
StepTruthValues == {None, Some(TruthValue(R(9, 10), R(8, 10)))}
StepEvidences == {<<>>, <<"Evidence 1">>}
BuilderTruthValue == TruthValue(R(9, 10), R(8, 10))
PremiseA == PremiseDict("A", R(8, 10), R(7, 10))
PremiseB == PremiseDict("B", R(9, 10), R(9, 10))
PLNPremiseLists == {<<>>, <<PremiseA>>, <<PremiseA, PremiseB>>, <<PremiseB, PremiseA>>}

\* A call that changes or reads one chain.
ChainCall(op, args, id, chain, result) ==
    /\ reasoning_chains' = [reasoning_chains EXCEPT ![id] = chain]
    /\ chain_call' = [op |-> op, args |-> args, result |-> result]

\* ReasoningChainBuilder.start_chain(goal)
StartChain ==
    /\ chain_call.op = "none"
    /\ NextChainId # None
    /\ \E goal \in ChainGoals :
           /\ ChainCall("start_chain", <<goal>>, NextChainId[1], ReasoningChain(goal),
                        NextChainId[1])
           /\ current_chain' = NextChainId
    /\ UNCHANGED <<summaries, ExceptReasoning>>

\* chain.add_step(premise, conclusion, rule, truth_value, evidence) on a chain
\* the caller holds.
AddStep ==
    /\ chain_call.op = "none"
    /\ TotalSteps < MaxChainSteps
    /\ \E id \in ChainIdSet, premise \in StepPremises,
          truth_value \in StepTruthValues, evidence \in StepEvidences :
           /\ reasoning_chains[id].exists
           /\ ChainCall("add_step", <<id, premise, truth_value, evidence>>, id,
                        add_step(reasoning_chains[id], premise, "C", "Custom", truth_value, evidence),
                        NewStep(reasoning_chains[id], premise, "C", "Custom", truth_value, evidence))
    /\ UNCHANGED <<current_chain, summaries, ExceptReasoning>>

\* One of the builder's add_* methods: ValueError without an active chain,
\* else add_step on the active chain with the rule's name.
BuilderAdd(op, rule) ==
    /\ chain_call.op = "none"
    /\ IF current_chain = None
       THEN /\ chain_call' = [op |-> op, args |-> <<>>, result |-> Raised("ValueError")]
            /\ UNCHANGED reasoning_chains
       ELSE /\ TotalSteps < MaxChainSteps
            /\ ChainCall(op, <<current_chain[1]>>, current_chain[1],
                         add_step(reasoning_chains[current_chain[1]], "A", "C", rule,
                                  Some(BuilderTruthValue), <<>>),
                         NewStep(reasoning_chains[current_chain[1]], "A", "C", rule,
                                 Some(BuilderTruthValue), <<>>))
    /\ UNCHANGED <<current_chain, summaries, ExceptReasoning>>

AddDeduction == BuilderAdd("add_deduction", "Deduction")
AddAbduction == BuilderAdd("add_abduction", "Abduction")
AddInduction == BuilderAdd("add_induction", "Induction")

\* A call on one chain that may set its confidence.
ChainDone(op, args, id, done) == ChainCall(op, args, id, done.chain, done.result)

\* A call that hands a summary of one chain to the caller, who keeps it.
SummaryDone(op, args, id, done) ==
    /\ ChainCall(op, args, id, done.chain, done.result)
    /\ summaries' = IF IsRaised(done.result) THEN summaries
                    ELSE [summaries EXCEPT ![id] = Some(done.result)]

\* chain.calculate_confidence() on a chain the caller holds.
CalculateConfidence ==
    /\ chain_call.op = "none"
    /\ \E id \in ChainIdSet :
           /\ reasoning_chains[id].exists
           /\ ChainDone("calculate_confidence", <<id>>, id,
                        calculate_confidence(reasoning_chains[id]))
    /\ UNCHANGED <<current_chain, summaries, ExceptReasoning>>

\* chain.get_chain_summary() on a chain the caller holds.
GetChainSummary ==
    /\ chain_call.op = "none"
    /\ \E id \in ChainIdSet :
           /\ reasoning_chains[id].exists
           /\ SummaryDone("get_chain_summary", <<id>>, id,
                           get_chain_summary(reasoning_chains[id]))
    /\ UNCHANGED <<current_chain, ExceptReasoning>>

\* self.current_chain = None, reached only when the summary was made.
FinalizeDone(id, done) ==
    /\ SummaryDone("finalize", <<id>>, id, done)
    /\ current_chain' = IF IsRaised(done.result) THEN current_chain ELSE None

\* ReasoningChainBuilder.finalize(): ValueError without an active chain.
Finalize ==
    /\ chain_call.op = "none"
    /\ IF current_chain = None
       THEN /\ chain_call' = [op |-> "finalize", args |-> <<>>, result |-> Raised("ValueError")]
            /\ UNCHANGED <<reasoning_chains, current_chain, summaries>>
       ELSE FinalizeDone(current_chain[1], get_chain_summary(reasoning_chains[current_chain[1]]))
    /\ UNCHANGED ExceptReasoning

\* The chain reason_with_pln started stays the builder's current chain.
PLNDone(id, premises, goal, done) ==
    /\ ChainCall("reason_with_pln", <<id, premises, goal>>, id, done.chain, done.result)
    /\ current_chain' = Some(id)
    /\ summaries' = IF done.summary = None THEN summaries
                    ELSE [summaries EXCEPT ![id] = done.summary]

\* CognitiveReasoner.reason_with_pln(premises, goal): starts a chain with the
\* builder, adds a step per premise, takes the summary of the chain.
ReasonWithPLN ==
    /\ chain_call.op = "none"
    /\ NextChainId # None
    /\ \E premises \in PLNPremiseLists, goal \in ChainGoals :
           /\ TotalSteps + Len(premises) <= MaxChainSteps
           /\ PLNDone(NextChainId[1], premises, goal, reason_with_pln(premises, goal))
    /\ UNCHANGED ExceptReasoning

\* The caller has taken the result.
ChainReturn ==
    /\ chain_call.op # "none"
    /\ chain_call' = NoChainCall
    /\ UNCHANGED <<reasoning_chains, current_chain, summaries, ExceptReasoning>>

----------------------------------------------------------------------------
(* add_rule called by another request handler while forward_chaining runs. *)
(* The engine is one object shared by all handlers (get_pln_engine) and     *)
(* neither add_rule nor the chaining takes a lock.  forward_chaining reads  *)
(* self.rules anew on each pass of its outer loop and iterates the dict     *)
(* itself: a key added while the iteration is under way makes the next      *)
(* step of the iteration raise RuntimeError (dictionary changed size        *)
(* during iteration); a value replaced under its key, or any write that     *)
(* falls between two passes, is simply seen by what is read afterwards.     *)

NoAddCall == [op |-> "none", rule |-> <<>>, before |-> <<>>]

\* The write of add_rule lands while forward_chaining is in its call.
ConcurrentWrite(rule) ==
    /\ add_call.op = "none"
    /\ fc.pc = "loop"
    /\ rules' = DictSet(rules, rule)
    /\ add_call' = [op |-> "add_rule", rule |-> rule, before |-> rules]

\* The name the other handler adds a rule under.
ConcurrentRuleNames == {"r1"}

\* The write lands between two passes of the outer loop, or replaces the
\* value of a key the table has: the passes made afterwards read it.
AddRuleBetweenPasses ==
    /\ \E name \in ConcurrentRuleNames, condition \in Atoms, conclusion \in Atoms,
          tv \in NewRuleTVs :
           ConcurrentWrite(Rule(name, condition, conclusion, tv))
    /\ UNCHANGED <<fc, ExceptConcurrent>>

\* The write adds a key while a pass iterates the table: the iteration
\* raises RuntimeError and the call ends with it.
AddRuleDuringPass ==
    /\ RangeHasNext(fc.step, fc.max_steps)
    /\ \E name \in ConcurrentRuleNames, condition \in Atoms, conclusion \in Atoms,
          tv \in NewRuleTVs :
           /\ RuleIndex(rules, name) = {}
           /\ ConcurrentWrite(Rule(name, condition, conclusion, tv))
    /\ fc' = [fc EXCEPT !.pc = "raised", !.passes = fc.passes + 1]
    /\ UNCHANGED ExceptConcurrent

\* The RuntimeError has reached the caller of forward_chaining.
FCRaised ==
    /\ fc.pc = "raised"
    /\ fc' = IdleFC
    /\ UNCHANGED ExceptFC

\* The other handler's add_rule call is over.
AddRuleReturn ==
    /\ add_call.op # "none"
    /\ fc.pc = "idle"
    /\ add_call' = NoAddCall
    /\ UNCHANGED ExceptAddCall

\* forward_chaining run from start to end over one table: the passes from
\* step on.
RECURSIVE Passes(_, _, _, _, _)
Passes(table, working_set, results, step, max_steps) ==
    IF ~RangeHasNext(step, max_steps) THEN results
    ELSE LET pass == RulePass(table, 1, working_set, <<>>, step)
         IN  IF pass.new_inferences # <<>>
             THEN Passes(table, pass.working_set, results \o pass.new_inferences,
                         step + 1, max_steps)
             ELSE results

\* The list forward_chaining returns when the table is the same throughout.
ForwardChainingOver(table, premises, max_steps) ==
    Passes(table, WorkingSetOf(premises), <<>>, 0, max_steps)

----------------------------------------------------------------------------
(* Causal discovery from observations.  An observation is a dict from some *)
(* of the variables to numbers.  A correlation is the quotient of a sum by *)
(* a product of two square roots, which is no rational in general: it is   *)
(* held as its sign and its exact square, abs(correlation) is held as the  *)
(* square alone, and the two decimals that the evidence text prints are    *)
(* computed from the square.                                               *)

MaxObservations == 4

DataVariables == {"poverty", "allocation"}
ObservedValues == {1, 2}
Observations == UNION {[keys -> ObservedValues] : keys \in SUBSET DataVariables}
DataSets == UNION {[1..len -> Observations] : len \in 0..MaxObservations}

NoDiscoverCall == [op |-> "none", data |-> <<>>, result |-> <<>>]

RECURSIVE SumOf(_, _)
SumOf(values, k) == IF k = 0 THEN 0 ELSE values[k] + SumOf(values, k - 1)

PairedValues(data, var1, var2) ==
    LET RECURSIVE Loop(_, _)
        Loop(k, acc) ==
            IF k > Len(data) THEN acc
            ELSE IF var1 \in DOMAIN data[k] /\ var2 \in DOMAIN data[k]
                 THEN Loop(k + 1, Append(acc, <<data[k][var1], data[k][var2]>>))
                 ELSE Loop(k + 1, acc)
    IN Loop(1, <<>>)

Sign(x) == IF x > 0 THEN 1 ELSE IF x < 0 THEN -1 ELSE 0

CorrelationOf(pairs) ==
    LET len == Len(pairs)
        values1 == [k \in 1..len |-> pairs[k][1]]
        values2 == [k \in 1..len |-> pairs[k][2]]
        sum1 == SumOf(values1, len)
        sum2 == SumOf(values2, len)
        \* every deviation from the mean is scaled by len, which leaves
        \* the quotient unchanged
        numerator == SumOf([k \in 1..len |->
                        (len * values1[k] - sum1) * (len * values2[k] - sum2)], len)
        denom1sq == SumOf([k \in 1..len |->
                        (len * values1[k] - sum1) * (len * values1[k] - sum1)], len)
        denom2sq == SumOf([k \in 1..len |->
                        (len * values2[k] - sum2) * (len * values2[k] - sum2)], len)
    IN IF len < 2 THEN [sign |-> 0, square |-> Zero]
       ELSE IF denom1sq = 0 \/ denom2sq = 0 THEN [sign |-> 0, square |-> Zero]
       ELSE [sign |-> Sign(numerator),
             square |-> R(numerator * numerator, denom1sq * denom2sq)]

_calculate_correlation(data, var1, var2) ==
    CorrelationOf(PairedValues(data, var1, var2))

\* f"{correlation:.2f}" as a signed number of hundredths, ties to even
Hundredths(correlation) ==
    LET scaled == Mul(R(40000, 1), correlation.square)   \* (200 * abs)^2
        near == {k \in 0..100 :
                    /\ (k = 0 \/ Leq(R((2 * k - 1) * (2 * k - 1), 1), scaled))
                    /\ Leq(scaled, R((2 * k + 1) * (2 * k + 1), 1))}
        k == IF Cardinality(near) = 1 THEN CHOOSE x \in near : TRUE
             ELSE CHOOSE x \in near : x % 2 = 0
    IN correlation.sign * k

CausalRelation(cause, effect, strength, confidence, evidence, mechanism) ==
    [cause |-> cause, effect |-> effect, strength |-> strength,
     confidence |-> confidence, evidence |-> evidence, mechanism |-> mechanism]

\* abs(correlation), held as its square
AbsCorrelation(correlation) == [squared |-> correlation.square]

VariablesOf(data) == UNION {DOMAIN data[k] : k \in 1..Len(data)}

\* the orders in which a set of strings can be iterated
IterationOrders(set) ==
    {order \in [1..Cardinality(set) -> set] :
        \A i, j \in 1..Cardinality(set) : order[i] = order[j] => i = j}

discover_causal_relations(data, order) ==
    LET count == Len(order)
        RECURSIVE Loop(_, _, _)
        Loop(i, j, relations) ==
            IF i > count THEN relations
            ELSE IF j > count THEN Loop(i + 1, 1, relations)
            ELSE IF order[i] = order[j] THEN Loop(i, j + 1, relations)
            ELSE LET correlation == _calculate_correlation(data, order[i], order[j])
                 IN IF Lt(R(9, 25), correlation.square)   \* abs > 0.6
                    THEN Loop(i, j + 1, Append(relations,
                            CausalRelation(order[i], order[j],
                                AbsCorrelation(correlation),
                                Min(R(7, 10), R(Len(data), 10)),
                                <<[text |-> "Correlation: ",
                                   hundredths |-> Hundredths(correlation)]>>,
                                "Statistical association")))
                    ELSE Loop(i, j + 1, relations)
    IN IF Len(data) < 3 THEN <<>> ELSE Loop(1, 1, <<>>)

DiscoverCausalRelations ==
    /\ discover_call.op = "none"
    /\ \E data \in DataSets :
        \E order \in IterationOrders(VariablesOf(data)) :
            discover_call' = [op |-> "discover_causal_relations", data |-> data,
                              result |-> discover_causal_relations(data, order)]
    /\ UNCHANGED ExceptDiscoverCall

DiscoverReturn ==
    /\ discover_call.op # "none"
    /\ discover_call' = NoDiscoverCall
    /\ UNCHANGED ExceptDiscoverCall

----------------------------------------------------------------------------
(* pln/advanced_pln.py: abductive_reasoning, one action for the call.  It  *)
(* reads the rule table once per candidate; no other handler runs within   *)
(* the call, and abd_call holds the call and its result until the caller   *)
(* goes on to its next call.                                               *)

MaxCandidates == 2

CandidateLists == UNION {[1..k -> Atoms] : k \in 0..MaxCandidates}

NoAbdCall ==
    [op |-> "none", observation |-> "", possible_causes |-> <<>>,
     known_facts |-> <<>>, result |-> <<>>]

DefaultObservationTV == TruthValue(One, R(8, 10))

\* Mutant of SortByStrength: the explanations are left in the order found.
SortByStrengthOmitted(explanations) == explanations

\* explanations.sort(key=lambda x: x.truth_value.strength, reverse=True):
\* a stable sort, equal strengths keep their order
SortByStrength(explanations) ==
    LET RECURSIVE Insert(_, _)
        Insert(sorted, x) ==
            IF sorted = <<>> THEN <<x>>
            ELSE IF Lt(sorted[Len(sorted)].truth_value.strength,
                       x.truth_value.strength)
                 THEN Append(Insert(SubSeq(sorted, 1, Len(sorted) - 1), x),
                             sorted[Len(sorted)])
                 ELSE Append(sorted, x)
        RECURSIVE Loop(_, _)
        Loop(k, sorted) ==
            IF k > Len(explanations) THEN sorted
            ELSE Loop(k + 1, Insert(sorted, explanations[k]))
    IN Loop(1, <<>>)

abductive_reasoning(table, observation, possible_causes, known_facts) ==
    LET obs_tv == DictGet(known_facts, observation, DefaultObservationTV)
        RECURSIVE Loop(_, _, _)
        Loop(c, r, explanations) ==
            IF c > Len(possible_causes) THEN explanations
            ELSE IF r > Len(table) THEN Loop(c + 1, 1, explanations)
            ELSE IF /\ table[r].condition = possible_causes[c]
                    /\ table[r].conclusion = observation
                 THEN Loop(c, r + 1, Append(explanations,
                        InferenceResult(possible_causes[c],
                            abduction(table[r].truth_value, obs_tv),
                            <<observation, possible_causes[c]>>,
                            <<observation>>, <<table[r].name>>, 1)))
                 ELSE Loop(c, r + 1, explanations)
    IN SortByStrength(Loop(1, 1, <<>>))

AbductiveReasoning ==
    /\ abd_call.op = "none"
    /\ fc.pc = "idle"
    /\ bc.pc = "idle"
    /\ \E observation \in Atoms, possible_causes \in CandidateLists,
          known_facts \in KnownFacts :
        abd_call' = [op |-> "abductive_reasoning", observation |-> observation,
                     possible_causes |-> possible_causes,
                     known_facts |-> known_facts,
                     result |-> abductive_reasoning(get_all_rules, observation,
                                    possible_causes, known_facts)]
    /\ UNCHANGED ExceptAbdCall

AbdReturn ==
    /\ abd_call.op # "none"
    /\ abd_call' = NoAbdCall
    /\ UNCHANGED ExceptAbdCall

NoTVCall == [op |-> "none", raw |-> <<>>, tvs |-> <<>>, out |-> <<>>]

Init ==
    /\ tv_call = NoTVCall
    /\ rules = InitialRules
    /\ fc = IdleFC
    /\ bc = IdleBC
    /\ causal_graph = <<>>
    /\ atomspace = EmptyBag
    /\ dfs = IdleDFS
    /\ ci_call = NoCICall
    /\ routing_stats = InitialStats
    /\ orch_call = NoOrchCall
    /\ rule_call = NoRuleCall
    /\ kb_file = NoFile
    /\ store_call = NoStoreCall
    /\ score_call = NoScoreCall
    /\ reasoning_chains = NoChains
    /\ current_chain = None
    /\ summaries = NoSummaries
    /\ chain_call = NoChainCall
    /\ add_call = NoAddCall
    /\ discover_call = NoDiscoverCall
    /\ abd_call = NoAbdCall

NextFC ==
    \/ AddRule
    \/ FCStart
    \/ FCPass
    \/ FCExhausted
    \/ FCReturn

SpecFC == Init /\ [][NextFC]_vars

NextBC ==
    \/ AddRule
    \/ BCStart
    \/ BCStep
    \/ BCReturn

SpecBC == Init /\ [][NextBC]_vars

NextChain ==
    \/ AddRelationForChains
    \/ DFSStart
    \/ DFSStep
    \/ DFSReturn

SpecChain == Init /\ [][NextChain]_vars

NextCausal ==
    \/ AddRelation
    \/ Estimate
    \/ EstimateReturn

SpecCausal == Init /\ [][NextCausal]_vars

NextOrch ==
    \/ RouteQuery
    \/ AnalyzeQuery
    \/ DetermineRouting
    \/ GetStats
    \/ OrchReturn

SpecOrch == Init /\ [][NextOrch]_vars

NextRules ==
    \/ AddRule
    \/ ApplyRule
    \/ ApplyRuleReturn

SpecRules == Init /\ [][NextRules]_vars

NextStore ==
    \/ AddNode
    \/ AddLink
    \/ AddRegion
    \/ GetAllConcepts
    \/ AtomSpaceGetStats
    \/ ExportKnowledge
    \/ ImportKnowledge
    \/ ClearAtomspace
    \/ StoreReturn

SpecStore == Init /\ [][NextStore]_vars

NextScore ==
    \/ ScoreReasoningChain
    \/ ScoreReturn

SpecScore == Init /\ [][NextScore]_vars

NextReasoning ==
    \/ StartChain
    \/ AddStep
    \/ AddDeduction
    \/ AddAbduction
    \/ AddInduction
    \/ CalculateConfidence
    \/ GetChainSummary
    \/ Finalize
    \/ ReasonWithPLN
    \/ ChainReturn

SpecReasoning == Init /\ [][NextReasoning]_vars

NextConcurrent ==
    \/ FCStart
    \/ FCPass
    \/ FCExhausted
    \/ FCReturn
    \/ AddRuleBetweenPasses
    \/ AddRuleDuringPass
    \/ FCRaised
    \/ AddRuleReturn

SpecConcurrent == Init /\ [][NextConcurrent]_vars

NextDiscover ==
    \/ DiscoverCausalRelations
    \/ DiscoverReturn

SpecDiscover == Init /\ [][NextDiscover]_vars

AbdAddRule ==
    /\ abd_call.op = "none"
    /\ AddRule

NextAbduction ==
    \/ AbdAddRule
    \/ AbductiveReasoning
    \/ AbdReturn

SpecAbduction == Init /\ [][NextAbduction]_vars

----------------------------------------------------------------------------
(* The calculus called on its own.                                         *)

InitTV ==
    /\ tv_call \in {[op |-> "none", raw |-> raw, tvs |-> <<>>, out |-> <<>>] :
                        raw \in TVInputs}
    /\ rules = InitialRules
    /\ fc = IdleFC
    /\ bc = IdleBC
    /\ causal_graph = <<>>
    /\ atomspace = EmptyBag
    /\ dfs = IdleDFS
    /\ ci_call = NoCICall
    /\ routing_stats = InitialStats
    /\ orch_call = NoOrchCall
    /\ rule_call = NoRuleCall
    /\ kb_file = NoFile
    /\ store_call = NoStoreCall
    /\ score_call = NoScoreCall
    /\ reasoning_chains = NoChains
    /\ current_chain = None
    /\ summaries = NoSummaries
    /\ chain_call = NoChainCall
    /\ add_call = NoAddCall
    /\ discover_call = NoDiscoverCall
    /\ abd_call = NoAbdCall

NextTV ==
    \/ Deduction
    \/ Abduction
    \/ Induction
    \/ Conjunction
    \/ Disjunction
    \/ Negation

SpecTV == InitTV /\ [][NextTV]_vars

----------------------------------------------------------------------------
(* Claims about the calculus, checked under SpecTV.                        *)

AllValid(tvs) == \A i \in 1..Len(tvs) : ValidTV(tvs[i])

\* C8: for arguments with strength and confidence in [0,1] (any list, empty
\* or not, for induction) every operator of the calculus returns a truth
\* value whose strength and confidence are both in [0,1].
C8_TruthValueBounds ==
    (tv_call.op # "none" /\ AllValid(tv_call.tvs)) => ValidTV(tv_call.out[1])

\* An induction over more than ten valid instances: the confidence cap is
\* what keeps the result in range.
C8_Witness ==
    /\ tv_call.op = "induction"
    /\ Len(tv_call.tvs) > 10
    /\ AllValid(tv_call.tvs)
    /\ tv_call.out[1].confidence = InductionCap

\* C9: for valid A and B, conjunction(A,B).strength <= min(A.strength,
\* B.strength) and conjunction(A,B).confidence = min(A.confidence,
\* B.confidence).
C9_ConjunctionMonotone ==
    (tv_call.op = "conjunction" /\ AllValid(tv_call.tvs)) =>
        /\ Leq(tv_call.out[1].strength,
               Min(tv_call.tvs[1].strength, tv_call.tvs[2].strength))
        /\ tv_call.out[1].confidence =
               Min(tv_call.tvs[1].confidence, tv_call.tvs[2].confidence)

\* A conjunction of two valid values whose strength is strictly below both
\* arguments' strengths.
C9_Witness ==
    /\ tv_call.op = "conjunction"
    /\ AllValid(tv_call.tvs)
    /\ Lt(tv_call.out[1].strength, tv_call.tvs[1].strength)
    /\ Lt(tv_call.out[1].strength, tv_call.tvs[2].strength)
    /\ Lt(tv_call.tvs[1].confidence, tv_call.tvs[2].confidence)

\* C10: a TruthValue with a component outside [0,1] is rejected at
\* construction, so every TruthValue that exists and is fed to an operator
\* has both components in [0,1].
C10_OutOfRangeRejected ==
    \A i \in 1..Len(tv_call.tvs) : ValidTV(tv_call.tvs[i])

----------------------------------------------------------------------------
(* Claims about forward chaining, checked under SpecFC / FairSpecFC.       *)

\* C3: forward_chaining terminates for every rule table (cyclic ones and
\* self-loops included) and every premise list: it never makes more than
\* max_steps passes of its outer loop, every result has depth <= max_steps,
\* and every step of a call inside the loop either leaves the loop or uses
\* up one of the max_steps passes.
C3_ForwardChainingTerminates ==
    /\ [](/\ fc.passes <= fc.max_steps
          /\ \A i \in 1..Len(fc.results) :
                fc.results[i].depth \in 1..fc.max_steps)
    /\ [][fc.pc = "loop" =>
            \/ fc'.pc = "done"
            \/ fc'.pc = "loop" /\ fc'.passes = fc.passes + 1]_vars

\* A call over a table with a cycle that used every pass it was allowed and
\* was cut off by max_steps.
C3_Witness ==
    /\ fc.pc = "done"
    /\ fc.passes = fc.max_steps
    /\ fc.max_steps >= 2
    /\ \E i, j \in 1..Len(rules) :
          /\ rules[i].condition = rules[j].conclusion
          /\ rules[j].condition = rules[i].conclusion
          /\ rules[i].condition \in DOMAIN fc.working_set
    /\ \E i \in 1..Len(fc.results) : fc.results[i].depth = fc.max_steps

----------------------------------------------------------------------------
(* Claims about backward chaining, checked under SpecBC.                   *)

\* The atoms that follow from the facts by chains of at most k rules.
RECURSIVE Derivable(_, _, _)
Derivable(table, facts, k) ==
    IF k = 0 THEN facts
    ELSE LET before == Derivable(table, facts, k - 1)
         IN  before \cup {table[j].conclusion :
                             j \in {m \in 1..Len(table) :
                                       table[m].condition \in before}}

RuleIndices(stack) == [k \in 1..Len(stack) |-> stack[k].i]

\* a comes before b in the lexicographic order.
LexLess(a, b) ==
    \E k \in 1..Len(a) :
        /\ k <= Len(b)
        /\ a[k] < b[k]
        /\ \A m \in 1..(k - 1) : a[m] = b[m]

\* C4: backward_chaining terminates for every rule table, cyclic ones
\* included, and fails closed.  The recursion is never deeper than
\* max_depth + 1 calls, each call's max_depth is one less than its caller's,
\* and every step moves the rule positions held on the call stack forward
\* in the lexicographic order, so the search cannot loop.  A call whose
\* goal does not follow from known_facts by a chain of at most max_depth
\* rules returns None, and a returned result applies at most max_depth
\* rules.
C4_BackwardChainingFailsClosed ==
    /\ [](/\ Len(bc.stack) <= bc.max_depth + 1
          /\ \A k \in 1..Len(bc.stack) :
                /\ bc.stack[k].max_depth = bc.max_depth - (k - 1)
                /\ bc.stack[k].i \in 0..Len(rules)
          /\ bc.pc = "done" =>
                /\ bc.goal \notin Derivable(rules, DOMAIN bc.known_facts,
                                            bc.max_depth)
                      => bc.result = None
                /\ bc.result # None =>
                      /\ bc.result[1].depth <= bc.max_depth
                      /\ Len(bc.result[1].rules_applied) <= bc.max_depth)
    /\ [][(bc.pc = "run" /\ bc'.pc = "run") =>
              LexLess(RuleIndices(bc.stack), RuleIndices(bc'.stack))]_vars

\* A call on a cyclic rule table (the goal's rule is fed by a rule from the
\* goal) that went max_depth calls deep, found no chain and returned None.
C4_Witness ==
    /\ bc.pc = "done"
    /\ bc.result = None
    /\ bc.max_depth >= 2
    /\ bc.calls > bc.max_depth
    /\ bc.goal \notin DOMAIN bc.known_facts
    /\ \E i, j \in 1..Len(rules) :
          /\ i # j
          /\ rules[i].conclusion = bc.goal
          /\ rules[j].conclusion = rules[i].condition
          /\ rules[j].condition = bc.goal

----------------------------------------------------------------------------
(* Claims about the causal chain search, checked under SpecChain.          *)

HasEdge(graph, cause, effect) ==
    \E k \in 1..Len(EdgesOf(graph, cause)) : graph[cause][k].effect = effect

IsPath(graph, p) == \A k \in 1..(Len(p) - 1) : HasEdge(graph, p[k], p[k + 1])

IsSimple(p) == \A j, k \in 1..Len(p) : j # k => p[j] # p[k]

\* Every sequence of variables that could be a simple path.
NodeSeqs == UNION {[1..k -> CausalVars] : k \in 1..Cardinality(CausalVars)}

\* The simple paths of the graph from start to end with at most max_depth
\* edges.
SimplePaths(graph, start, end, max_depth) ==
    {p \in NodeSeqs : /\ p[1] = start
                      /\ p[Len(p)] = end
                      /\ IsSimple(p)
                      /\ IsPath(graph, p)
                      /\ Len(p) - 1 <= max_depth}

EdgeIndices(stack) == [k \in 1..Len(stack) |-> stack[k].i]

\* C5: infer_causal_chain terminates on every causal graph, cyclic ones
\* included, and returns all paths found.  The nested dfs is never deeper
\* than max_depth + 2 calls, the k-th call runs at depth k - 1, and every
\* step moves the edge positions held on the call stack forward in the
\* lexicographic order, so the search cannot loop.  The returned chains are
\* exactly the simple paths of the graph from start to end with at most
\* max_depth edges.
C5_CausalChainsAreTheSimplePaths ==
    /\ [](/\ Len(dfs.stack) <= dfs.max_depth + 2
          /\ \A k \in 1..Len(dfs.stack) : dfs.stack[k].depth = k - 1
          /\ dfs.pc = "done" =>
                Range(dfs.chains) =
                    SimplePaths(causal_graph, dfs.start, dfs.target,
                                dfs.max_depth))
    /\ [][(dfs.pc = "run" /\ dfs'.pc = "run") =>
              LexLess(EdgeIndices(dfs.stack), EdgeIndices(dfs'.stack))]_vars

\* A finished search over a graph with a cycle on the way (start -> x and
\* x -> start) that still found a chain of max_depth edges to the target.
C5_Witness ==
    /\ dfs.pc = "done"
    /\ dfs.start # dfs.target
    /\ \E k \in 1..Len(dfs.chains) :
          /\ Len(dfs.chains[k]) = dfs.max_depth + 1
          /\ Len(dfs.chains[k]) = 3
          /\ HasEdge(causal_graph, dfs.chains[k][2], dfs.start)

----------------------------------------------------------------------------
(* Claims about the effect estimate, checked under SpecCausal.             *)

Successors(graph, S) ==
    UNION {{graph[c][k].effect : k \in 1..Len(graph[c])} : c \in S \cap DOMAIN graph}

\* The variables reached from S by one edge and then at most k more.
RECURSIVE ReachedWithin(_, _, _)
ReachedWithin(graph, S, k) ==
    IF k = 0 THEN Successors(graph, S)
    ELSE LET before == ReachedWithin(graph, S, k - 1)
         IN  before \cup Successors(graph, before)

\* There is a path of one or more edges from cause to effect.
Causes(graph, cause, effect) ==
    effect \in ReachedWithin(graph, {cause}, Cardinality(CausalVars))

\* C6: whenever the graph holds no path of one or more edges from cause to
\* effect (cause = effect without a self-edge and a cause that is not in the
\* graph included), estimate_causal_effect returns estimated_effect 0 and
\* confidence 0 with the 'no path' method and no chain.
C6_NoPathGivesZero ==
    (ci_call.op = "estimate_causal_effect"
        /\ ~Causes(causal_graph, ci_call.cause, ci_call.effect)) =>
        /\ ci_call.result.estimated_effect = Zero
        /\ ci_call.result.confidence = Zero
        /\ ci_call.result.method = "No causal path found"
        /\ ci_call.result.chain = <<>>

\* The edges of the graph for hop i of a chain.
HopEdges(graph, chain, i) ==
    {graph[chain[i]][k] : k \in {j \in 1..Len(EdgesOf(graph, chain[i])) :
                                    graph[chain[i]][j].effect = chain[i + 1]}}

AllEdges(graph) == UNION {Range(graph[c]) : c \in DOMAIN graph}

\* The ways to pick one edge for every hop of a chain.
OneEdgePerHop(graph, chain) ==
    {sel \in [1..(Len(chain) - 1) -> AllEdges(graph)] :
        \A i \in 1..(Len(chain) - 1) : sel[i] \in HopEdges(graph, chain, i)}

RECURSIVE Product(_), MinConfidence(_)
Product(sel) ==
    IF sel = <<>> THEN One ELSE Mul(Head(sel).strength, Product(Tail(sel)))
MinConfidence(sel) ==
    IF sel = <<>> THEN One ELSE Min(Head(sel).confidence, MinConfidence(Tail(sel)))

\* C7: when there is no direct edge cause -> effect but a chain exists, the
\* estimate uses a chain with the fewest hops among the chains found, its
\* estimated_effect is the product of one edge strength per hop of that
\* chain and its confidence is 0.8 times the minimum confidence of those
\* hops; also when a relation has been added more than once.
C7_IndirectEffectIsProductAlongChain ==
    (ci_call.op = "estimate_causal_effect"
        /\ ~HasEdge(causal_graph, ci_call.cause, ci_call.effect)
        /\ SimplePaths(causal_graph, ci_call.cause, ci_call.effect,
                       DefaultMaxDepth) # {}) =>
        LET chain == ci_call.result.chain
        IN  /\ chain \in SimplePaths(causal_graph, ci_call.cause,
                                     ci_call.effect, DefaultMaxDepth)
            /\ \A p \in SimplePaths(causal_graph, ci_call.cause,
                                    ci_call.effect, DefaultMaxDepth) :
                   Len(chain) <= Len(p)
            /\ \E sel \in OneEdgePerHop(causal_graph, chain) :
                   /\ ci_call.result.estimated_effect = Product(sel)
                   /\ ci_call.result.confidence =
                          Mul(MinConfidence(sel), IndirectPenalty)

----------------------------------------------------------------------------
(* Claims about query routing, checked under SpecOrch.                     *)

\* C1: for every analysis analyze_query produces in which requires_documents
\* is true, route_query returns the COGNITIVE routing, whatever the intent
\* (calculate included), the other flags and the complexity are; it never
\* returns METTA.
C1_DocumentQueriesGoToCognitive ==
    (orch_call.op = "route_query" /\ orch_call.result.analysis.requires_documents) =>
        /\ orch_call.result.analysis = analyze_query(orch_call.args)
        /\ orch_call.result.routing = "COGNITIVE"

C1_Witness ==
    /\ orch_call.op = "route_query"
    /\ orch_call.result.analysis.requires_documents
    /\ orch_call.result.analysis.intent = "calculate"
    /\ orch_call.result.analysis.requires_calculation
    /\ orch_call.result.analysis.requires_explanation
    /\ orch_call.result.routing = "COGNITIVE"

\* The priority-ordered routing table, row k.
RowMatches(k, a) ==
    CASE k = 1 -> a.requires_documents
      [] k = 2 -> a.requires_multi_hop
      [] k = 3 -> a.complexity = "SIMPLE" /\ a.requires_calculation
      [] k = 4 -> a.requires_explanation /\ a.requires_calculation
      [] k = 5 -> a.intent \in {"compare", "analyze"} /\ ~a.requires_explanation
      [] k = 6 -> a.intent \in {"compare", "analyze"} /\ a.requires_explanation
      [] k = 7 -> a.complexity \in {"COMPLEX", "VERY_COMPLEX"}
      [] k = 8 -> a.complexity = "MODERATE" /\ a.requires_reasoning
      [] k = 9 -> TRUE

RowRouting ==
    <<"COGNITIVE", "COGNITIVE", "METTA", "HYBRID_METTA", "GATEWAY",
      "HYBRID_GATEWAY", "COGNITIVE", "COGNITIVE", "METTA">>

FirstMatchingRow(a) == Least({k \in 1..Len(RowRouting) : RowMatches(k, a)})

\* C2: for every combination of complexity, intent and requirement flags,
\* _determine_routing returns the routing of the first matching row of the
\* priority-ordered table (documents, multi-hop, simple calculation,
\* explanation with calculation, compare/analyze without and with
\* explanation, complex or very complex, moderate with reasoning, default),
\* called directly and from route_query.
C2_RoutingIsFirstMatchingRow ==
    /\ orch_call.op = "_determine_routing" =>
           orch_call.result = RowRouting[FirstMatchingRow(orch_call.args)]
    /\ orch_call.op = "route_query" =>
           orch_call.result.routing =
               RowRouting[FirstMatchingRow(orch_call.result.analysis)]

C2_Witness ==
    /\ orch_call.op = "_determine_routing"
    /\ FirstMatchingRow(orch_call.args) = 6
    /\ orch_call.args.intent = "analyze"
    /\ orch_call.args.complexity = "VERY_COMPLEX"
    /\ orch_call.result = "HYBRID_GATEWAY"

----------------------------------------------------------------------------
(* Claims about apply_rule, checked under SpecRules.                       *)

\* C11: apply_rule called with a rule name that is not in the rule table
\* returns a structured 'not applied' result, a result object whose applied
\* field is false, and leaves the rule table unchanged.
C11_UnknownRuleIsNotApplied ==
    /\ [](  (rule_call.op = "apply_rule"
               /\ RuleIndex(rules, rule_call.rule_name) = {}) =>
            (rule_call.result # None /\ rule_call.result[1].applied = FALSE))
    /\ [][rule_call'.op = "apply_rule" => rules' = rules]_vars

----------------------------------------------------------------------------
(* Claims about the AtomSpace, checked under SpecStore.                    *)

\* C12: adding the same node twice is a no-op: an add_node of a (type, id)
\* the store already holds leaves the list returned by get_all_concepts and
\* the total_concepts statistic unchanged.
C12_AddNodeTwiceIsNoOp ==
    [][(store_call'.op = "add_node"
          /\ BagIn(<<":", store_call'.args[2], store_call'.args[1]>>, atomspace)) =>
         /\ get_all_concepts(atomspace') = get_all_concepts(atomspace)
         /\ atomspace_get_stats(atomspace').total_concepts =
                atomspace_get_stats(atomspace).total_concepts]_vars

\* The concept nodes of a store, as a set.
ConceptNodes(space) == DOMAIN get_all_concepts(space)

\* The number of node atoms "(: name type)" a store holds.
NodeAtomCount(space) ==
    BagCardinality([atom \in {a \in BagToSet(space) : Len(a) = 3 /\ a[1] = ":"} |->
                       space[atom]])

\* C13: for every store state, export_knowledge followed by
\* import_knowledge of the file into a cleared store gives the same set of
\* concept nodes as before the export, and importing the file into a store
\* does not duplicate node atoms.
C13_ExportImportRoundTrip ==
    /\ [](ConceptNodes(import_knowledge(EmptyBag, export_knowledge(atomspace)))
            = ConceptNodes(atomspace))
    /\ [][(store_call'.op = "import_knowledge" /\ kb_file.exists) =>
            NodeAtomCount(atomspace') = NodeAtomCount(atomspace)]_vars

\* An atom is a link: an expression headed by a link type.
IsLink(atom) == Len(atom) = 3 /\ atom[1] \in LinkTypes

\* A store holds a node atom for a name.
HasNode(space, name) ==
    \E atom \in BagToSet(space) : Len(atom) = 3 /\ atom[1] = ":" /\ atom[2] = name

\* C14: in every reachable store state, every atom referenced by a stored
\* link exists as a node atom; add_link and the knowledge-store operations
\* built on it never store a link to a missing node.
C14_LinksReferToStoredNodes ==
    \A atom \in BagToSet(atomspace) :
        IsLink(atom) => HasNode(atomspace, atom[2]) /\ HasNode(atomspace, atom[3])

----------------------------------------------------------------------------
(* Claims about score_reasoning_chain, checked under SpecScore.            *)

AtMostMedium == {"very_low", "low", "medium"}

NoStepCarriesEvidence(chain) == \A k \in 1..Len(chain) : ~CarriesEvidence(chain[k])

\* Every truth value a step has is a TruthValue object.
TruthValuesAreObjects(chain) ==
    \A k \in 1..Len(chain) :
        chain[k].has_truth_value => chain[k].truth_value.kind = "TruthValue"

----------------------------------------------------------------------------
(* Claims about ReasoningChain and reason_with_pln, checked under           *)
(* SpecReasoning.                                                          *)

\* C15: a ReasoningChain is immutable once get_chain_summary (or the
\* builder's finalize) has been called on it: the steps of a chain stay the
\* steps of the summary its caller was given, whatever add_step is called
\* later, and its confidence stays the one computed then, whatever
\* calculate_confidence or get_chain_summary is called later.
C15_SummarizedChainIsImmutable ==
    /\ [](\A id \in ChainIdSet :
            summaries[id] # None =>
                StepsToDict(reasoning_chains[id].steps) = summaries[id][1].steps)
    /\ [][\A id \in ChainIdSet :
            summaries[id] # None =>
                reasoning_chains'[id].overall_confidence =
                    reasoning_chains[id].overall_confidence]_vars

ConfidenceLevels == {"very_low", "low", "medium", "high", "very_high"}

\* C16: get_chain_summary never raises and always includes a confidence
\* level: for a chain with any number of steps, with or without truth values
\* and evidence, it returns a summary whose total_steps is the number of
\* add_step calls made and whose confidence carries one of the five levels.
C16_SummaryNeverRaises ==
    chain_call.op = "get_chain_summary" =>
        /\ ~IsRaised(chain_call.result)
        /\ chain_call.result.total_steps =
               Len(reasoning_chains[chain_call.args[1]].steps)
        /\ chain_call.result.confidence.level \in ConfidenceLevels

\* C17: reason_with_pln called with a list of premises and a goal returns a
\* summary with success = true, the given goal, and exactly one step per
\* premise in premise order: step i has premise i's statement and step
\* number i.
C17_ReasonWithPLNSucceeds ==
    chain_call.op = "reason_with_pln" =>
        /\ chain_call.result.success
        /\ chain_call.result.goal = chain_call.args[3]
        /\ chain_call.result.total_steps = Len(chain_call.args[2])
        /\ Len(chain_call.result.steps) = Len(chain_call.args[2])
        /\ \A i \in 1..Len(chain_call.args[2]) :
               /\ chain_call.result.steps[i].premise = chain_call.args[2][i].statement
               /\ chain_call.result.steps[i].step = i

----------------------------------------------------------------------------
(* Claim about chaining under concurrent add_rule, checked under           *)
(* SpecConcurrent.                                                         *)

\* C20: a forward_chaining call that runs concurrently with an add_rule call
\* of another request handler observes one consistent snapshot of the rule
\* table for its whole duration: it never fails, and its result is the
\* result over the table entirely before or entirely after the add_rule.
C20_ChainingSeesOneSnapshot ==
    /\ fc.pc # "raised"
    /\ (fc.pc = "done" /\ add_call.op = "add_rule") =>
           fc.results \in
               {ForwardChainingOver(add_call.before, fc.premises, fc.max_steps),
                ForwardChainingOver(rules, fc.premises, fc.max_steps)}

----------------------------------------------------------------------------
(* Claims about the analysis of a query and the routing counters, checked  *)
(* under SpecOrch.                                                         *)

\* The requirement flags of an analysis that are true.
RequirementFlags(a) ==
    Count(<<a.requires_calculation, a.requires_documents, a.requires_explanation,
            a.requires_comparison, a.requires_multi_hop>>)

\* The conjunctions of a query: its words that are 'and' or 'or'.
ConjunctionCount(query) ==
    LET words == SplitWords(Lower(query), 1, <<>>, <<>>)
    IN  Cardinality({k \in 1..Len(words) :
                        words[k] \in {<<"a", "n", "d">>, <<"o", "r">>}})

\* The analysis a call returned.
AnalysisReturned ==
    IF orch_call.op = "analyze_query" THEN orch_call.result
    ELSE orch_call.result.analysis

\* C21: analyze_query sets complexity to VeryComplex only when at least 3 of
\* the requirement flags (calculation, documents, explanation, comparison,
\* multi_hop) are true, or at least 2 of them are true and the query text
\* holds at least 3 conjunctions ('and'/'or').
C21_VeryComplexNeedsThreeFlags ==
    (orch_call.op \in {"analyze_query", "route_query"}
        /\ AnalysisReturned.complexity = "VERY_COMPLEX") =>
        \/ RequirementFlags(AnalysisReturned) >= 3
        \/ /\ RequirementFlags(AnalysisReturned) >= 2
           /\ ConjunctionCount(orch_call.args) >= 3

Counters == {"metta_queries", "gateway_queries", "cognitive_queries", "hybrid_queries"}

\* The counter that belongs to a routing.
CategoryOf(routing) ==
    IF routing = "METTA" THEN "metta_queries"
    ELSE IF routing = "GATEWAY" THEN "gateway_queries"
    ELSE IF routing = "COGNITIVE" THEN "cognitive_queries"
    ELSE "hybrid_queries"

\* C29: total_queries is the sum of the four category counters; each
\* route_query call adds exactly 1 to total_queries and exactly 1 to the
\* counter of the routing it returns, and nothing to the others; total_queries
\* counts the calls, as it starts at 0; analyze_query, _determine_routing and
\* get_stats leave all counters unchanged.
C29_CountersAddUp ==
    /\ [](routing_stats.total_queries =
            routing_stats.metta_queries + routing_stats.gateway_queries
                + routing_stats.cognitive_queries + routing_stats.hybrid_queries)
    /\ [][IF orch_call'.op = "route_query"
          THEN /\ routing_stats'.total_queries = routing_stats.total_queries + 1
               /\ \A c \in Counters :
                      routing_stats'[c] =
                          routing_stats[c]
                              + (IF c = CategoryOf(orch_call'.result.routing)
                                 THEN 1 ELSE 0)
          ELSE routing_stats' = routing_stats]_vars

C29_Witness ==
    /\ orch_call.op = "route_query"
    /\ orch_call.result.routing = "HYBRID_GATEWAY"
    /\ routing_stats.total_queries = 3
    /\ routing_stats.hybrid_queries = 2
    /\ routing_stats.metta_queries = 1

ComplexityRank(complexity) ==
    CASE complexity = "SIMPLE" -> 1
      [] complexity = "MODERATE" -> 2
      [] complexity = "COMPLEX" -> 3
      [] complexity = "VERY_COMPLEX" -> 4

\* C30: in every analysis analyze_query produces, requires_reasoning is true
\* exactly when explanation, comparison or multi-hop is required, and the
\* complexity is then at least Moderate; route_query returns the METTA
\* routing only for analyses with requires_reasoning, requires_documents and
\* requires_multi_hop all false.
C30_ReasoningNeverGoesToMettaAlone ==
    /\ orch_call.op \in {"analyze_query", "route_query"} =>
           /\ AnalysisReturned.requires_reasoning <=>
                  (AnalysisReturned.requires_explanation
                      \/ AnalysisReturned.requires_comparison
                      \/ AnalysisReturned.requires_multi_hop)
           /\ AnalysisReturned.requires_reasoning =>
                  ComplexityRank(AnalysisReturned.complexity) >= 2
    /\ (orch_call.op = "route_query" /\ orch_call.result.routing = "METTA") =>
           /\ ~orch_call.result.analysis.requires_reasoning
           /\ ~orch_call.result.analysis.requires_documents
           /\ ~orch_call.result.analysis.requires_multi_hop

C30_Witness ==
    /\ orch_call.op = "route_query"
    /\ orch_call.result.analysis.requires_reasoning
    /\ orch_call.result.analysis.requires_calculation
    /\ orch_call.result.analysis.complexity = "VERY_COMPLEX"
    /\ orch_call.result.routing = "HYBRID_METTA"

----------------------------------------------------------------------------
(* Claims about causal discovery, checked under SpecDiscover.              *)

PerfectlyCorrelated(data) ==
    /\ Len(data) = 4
    /\ \A k \in 1..Len(data) : DOMAIN data[k] = DataVariables
    /\ _calculate_correlation(data, "poverty", "allocation") =
            [sign |-> 1, square |-> One]

\* C22: discovery over 4 observations of poverty and allocation with
\* correlation 1.0 returns exactly one relation, poverty -> allocation,
\* with strength 1.0 and confidence 0.4.
C22_OneRelationFromPerfectCorrelation ==
    (discover_call.op = "discover_causal_relations"
        /\ PerfectlyCorrelated(discover_call.data)) =>
        /\ Len(discover_call.result) = 1
        /\ discover_call.result[1].cause = "poverty"
        /\ discover_call.result[1].effect = "allocation"
        /\ discover_call.result[1].strength = [squared |-> One]
        /\ discover_call.result[1].confidence = R(2, 5)

----------------------------------------------------------------------------
(* Claims about abductive reasoning, checked under SpecAbduction, where    *)
(* the rule table is the one the call read while its result is held.       *)

ObservationTV ==
    IF abd_call.observation \in DOMAIN abd_call.known_facts
    THEN abd_call.known_facts[abd_call.observation]
    ELSE TruthValue(One, R(8, 10))

Justifies(r, candidate) ==
    /\ rules[r].condition = candidate
    /\ rules[r].conclusion = abd_call.observation

HypothesesOf(candidate, r) ==
    {h \in 1..Len(abd_call.result) :
        /\ abd_call.result[h].conclusion = candidate
        /\ abd_call.result[h].rules_applied = <<rules[r].name>>}

\* C23: the hypotheses returned by abductive_reasoning are in
\* non-increasing order of strength; each names a candidate of the given
\* list and the rule that justifies it (condition the candidate, conclusion
\* the observation), and carries abduction(rule truth value, observation
\* truth value); and there is one hypothesis for every entry of the list
\* and every rule that justifies it.
C23_HypothesesRankedAndJustified ==
    abd_call.op = "abductive_reasoning" =>
        LET result == abd_call.result
            causes == abd_call.possible_causes
        IN
        /\ \A i, j \in 1..Len(result) :
            i < j => Leq(result[j].truth_value.strength,
                         result[i].truth_value.strength)
        /\ \A h \in 1..Len(result) :
            /\ result[h].conclusion \in Range(causes)
            /\ \E r \in 1..Len(rules) :
                /\ Justifies(r, result[h].conclusion)
                /\ result[h].rules_applied = <<rules[r].name>>
                /\ result[h].truth_value =
                        abduction(rules[r].truth_value, ObservationTV)
        /\ \A c \in 1..Len(causes), r \in 1..Len(rules) :
            Justifies(r, causes[c]) =>
                Cardinality(HypothesesOf(causes[c], r)) =
                    Cardinality({k \in 1..Len(causes) : causes[k] = causes[c]})
        /\ Len(result) =
            Cardinality({p \in (1..Len(causes)) \X (1..Len(rules)) :
                            Justifies(p[2], causes[p[1]])})

\* two candidates, the weaker hypothesis found first and ranked second
C23_Witness ==
    /\ abd_call.op = "abductive_reasoning"
    /\ Len(abd_call.result) = 2
    /\ Len(abd_call.possible_causes) = 2
    /\ abd_call.result[2].conclusion = abd_call.possible_causes[1]
    /\ abd_call.result[1].conclusion = abd_call.possible_causes[2]
    /\ Lt(abd_call.result[2].truth_value.strength,
          abd_call.result[1].truth_value.strength)

----------------------------------------------------------------------------
(* Claims about the result of a finished chaining call, checked under      *)
(* SpecFC and SpecBC.                                                      *)

\* the loop was left by break: the last pass added nothing and did not
\* advance step
StoppedByBreak == fc.pc = "done" /\ fc.passes = fc.step + 1

PremiseAtoms == {fc.premises[k][1] : k \in 1..Len(fc.premises)}
ReturnedConclusions == {fc.results[h].conclusion : h \in 1..Len(fc.results)}

\* C24: when forward_chaining stops because a pass added nothing, the
\* working set is the premises plus the returned conclusions and is closed
\* under the rules: no rule has its condition in it and its conclusion
\* outside it.  Every returned conclusion carries deduction(truth value its
\* condition had in the working set when the rule fired, rule truth value).
C24_BreakLeavesFixedPoint ==
    /\ StoppedByBreak =>
        /\ DOMAIN fc.working_set = PremiseAtoms \cup ReturnedConclusions
        /\ \A r \in 1..Len(rules) :
            ~ (/\ rules[r].condition \in DOMAIN fc.working_set
               /\ rules[r].conclusion \notin DOMAIN fc.working_set)
    /\ fc.pc = "done" =>
        \A h \in 1..Len(fc.results) :
            \E r \in 1..Len(rules) :
                /\ fc.results[h].rules_applied = <<rules[r].name>>
                /\ fc.results[h].premises_used = <<rules[r].condition>>
                /\ fc.results[h].conclusion = rules[r].conclusion
                /\ fc.results[h].truth_value =
                        TruthValue(
                            Mul(fc.working_set[rules[r].condition].strength,
                                rules[r].truth_value.strength),
                            Mul(Min(fc.working_set[rules[r].condition].confidence,
                                    rules[r].truth_value.confidence),
                                R(9, 10)))
                /\ fc.working_set[rules[r].conclusion] = fc.results[h].truth_value

\* a break before max_steps, after a conclusion was drawn from a conclusion
C24_Witness ==
    /\ StoppedByBreak
    /\ fc.step < fc.max_steps
    /\ Len(fc.results) = 2
    /\ fc.results[2].premises_used = <<fc.results[1].conclusion>>
    /\ fc.results[1].conclusion \notin PremiseAtoms

RuleNamed(name) == rules[CHOOSE r \in 1..Len(rules) : rules[r].name = name]

\* C25: a result returned by backward_chaining is a well-formed proof.  Its
\* depth is 0 exactly when the goal is in known_facts, and then it is the
\* known truth value with no rule applied, whatever max_depth is.
\* Otherwise inference_path has depth + 1 elements, from a fact of
\* known_facts to the goal, rules_applied and premises_used have depth
\* elements, and the i-th applied rule leads from inference_path[i] to
\* inference_path[i + 1].
C25_ResultIsWellFormedProof ==
    /\ (bc.pc = "done" /\ bc.goal \in DOMAIN bc.known_facts) =>
            bc.result = Some(InferenceResult(bc.goal, bc.known_facts[bc.goal],
                                             <<bc.goal>>, <<>>, <<>>, 0))
    /\ (bc.pc = "done" /\ bc.result # None) =>
        LET result == bc.result[1]
            path == result.inference_path
        IN
        /\ result.conclusion = bc.goal
        /\ result.depth = 0 <=> bc.goal \in DOMAIN bc.known_facts
        /\ Len(path) = result.depth + 1
        /\ path[1] \in DOMAIN bc.known_facts
        /\ path[Len(path)] = bc.goal
        /\ Len(result.rules_applied) = result.depth
        /\ Len(result.premises_used) = result.depth
        /\ \A i \in 1..result.depth :
            /\ \E r \in 1..Len(rules) : rules[r].name = result.rules_applied[i]
            /\ RuleNamed(result.rules_applied[i]).condition = path[i]
            /\ RuleNamed(result.rules_applied[i]).conclusion = path[i + 1]
            /\ result.premises_used[i] = path[i]

\* a proof of two rules, found with max_depth = 2
C25_Witness ==
    /\ bc.pc = "done"
    /\ bc.result # None
    /\ bc.result[1].depth = 2
    /\ Len(bc.result[1].rules_applied) = 2
    /\ bc.goal \notin DOMAIN bc.known_facts

----------------------------------------------------------------------------
(* Claims about a chain's steps, its summary and the builder's protocol,   *)
(* checked under SpecReasoning.                                            *)

SummaryReturned ==
    /\ chain_call.op \in {"get_chain_summary", "finalize"}
    /\ ~IsRaised(chain_call.result)

ScoreOfListedSteps == score_reasoning_chain(chain_call.result.steps)

\* C26: in every summary get_chain_summary returns, the confidence is the
\* score of the steps the same summary lists, whatever add_step,
\* calculate_confidence and get_chain_summary calls came before.
C26_SummaryConfidenceIsOfItsSteps ==
    SummaryReturned =>
        /\ ~IsRaised(ScoreOfListedSteps)
        /\ chain_call.result.confidence = score_to_dict(ScoreOfListedSteps)

AddOps == {"add_step", "add_deduction", "add_abduction", "add_induction"}

Called(ops) == chain_call.op = "none" /\ chain_call'.op \in ops

IsPrefix(s, t) == Len(s) <= Len(t) /\ SubSeq(t, 1, Len(s)) = s

\* C27: the steps of a chain are numbered 1, 2, ... in list order; add_step
\* appends one step at the end and returns it; no operation removes,
\* reorders or renumbers a step of an existing chain.
C27_StepsAppendOnlyAndNumbered ==
    /\ [](\A id \in ChainIdSet :
            \A i \in 1..Len(reasoning_chains[id].steps) :
                reasoning_chains[id].steps[i].step_number = i)
    /\ [][\A id \in ChainIdSet :
            reasoning_chains[id].exists =>
                /\ reasoning_chains'[id].exists
                /\ IsPrefix(reasoning_chains[id].steps, reasoning_chains'[id].steps)
                /\ (Called(AddOps) /\ ~IsRaised(chain_call'.result)
                        /\ chain_call'.args[1] = id) =>
                      reasoning_chains'[id].steps =
                          Append(reasoning_chains[id].steps, chain_call'.result)
                /\ (Called(AddOps) /\ ~IsRaised(chain_call'.result)
                        /\ chain_call'.args[1] # id) =>
                      reasoning_chains'[id].steps = reasoning_chains[id].steps]_vars

\* a second step appended to a chain by add_step
C27_Witness ==
    /\ chain_call.op = "add_step"
    /\ chain_call.result.step_number = 2
    /\ Len(reasoning_chains[chain_call.args[1]].steps) = 2
    /\ reasoning_chains[chain_call.args[1]].steps[2] = chain_call.result

BuilderAdds == {"add_deduction", "add_abduction", "add_induction"}

\* C28: the builder follows start_chain -> add_* -> finalize.  With no
\* chain active, the add_* methods and finalize raise ValueError and change
\* nothing.  finalize with a chain active returns that chain's summary and
\* leaves no chain active.  start_chain makes a new chain the active one,
\* and an add_* call changes the active chain only.
C28_BuilderFollowsProtocol ==
    [][/\ (Called(BuilderAdds \cup {"finalize"}) /\ current_chain = None) =>
            /\ chain_call'.result = Raised("ValueError")
            /\ UNCHANGED <<reasoning_chains, current_chain, summaries>>
       /\ (Called({"finalize"}) /\ current_chain # None) =>
            /\ ~IsRaised(chain_call'.result)
            /\ chain_call'.result.goal = reasoning_chains[current_chain[1]].goal
            /\ chain_call'.result.steps =
                    StepsToDict(reasoning_chains[current_chain[1]].steps)
            /\ current_chain' = None
       /\ Called({"start_chain"}) =>
            /\ ~reasoning_chains[chain_call'.result].exists
            /\ current_chain' = Some(chain_call'.result)
       /\ (Called(BuilderAdds) /\ current_chain # None) =>
            \A id \in ChainIdSet :
                id # current_chain[1] =>
                    reasoning_chains'[id] = reasoning_chains[id]]_vars

====
